---- MODULE Spec2Model ----
(***************************************************************************)
(* libelfpp: the endianess converter (include/libelfpp/endianutil.h) and   *)
(* the construction of an ELFFile from a file (src/libelfpp.cpp with the   *)
(* header, segment and section implementations of src/private_impl.h).     *)
(*                                                                         *)
(* Two specifications share the module:                                    *)
(*   SpecConv  builds converters and applies them to byte-level values;    *)
(*   Spec      runs ELFFile::ELFFile(filename) step by step on a file      *)
(*             drawn from a bounded family of files.                       *)
(***************************************************************************)
EXTENDS Integers, Sequences, FiniteSets, TLC

VARIABLES
  \* ---- converter specification -------------------------------------------
  cpc,          \* position of the converter scenario
  cHost,        \* host_enc given to the two-argument constructor
  cFile,        \* file_enc given to the two-argument constructor
  NeedConv,     \* EndianessConverter::NeedConv of the converter for (host, file)
  NeedConvRev,  \* NeedConv of the converter built for (file, host)
  cKind,        \* overload applied: "u8","s8","u16","s16","u32","s32","u64","s64"
  cIn,          \* the value handed to operator()
  cOut,         \* operator()(cIn)
  cOut2,        \* operator()(cOut), same converter
  cBack,        \* the (file, host) converter applied to cOut
  \* ---- ELFFile construction ----------------------------------------------
  pc,           \* position inside ELFFile::ELFFile
  file,         \* the file named by filename (input, never written)
  hostLittle,   \* isHostLittleEndian() of the build
  Input,        \* the std::ifstream: [open, good]
  err,          \* what() of the exception that left the constructor, or "none"
  e_ident,      \* the bytes read into e_ident[EI_NIDENT]
  Is64Bit,      \* ELFFile::Is64Bit
  IsLittleEndian, \* ELFFile::IsLittleEndian
  Converter,    \* NeedConv of ELFFile::Converter
  FileHeader,   \* ELFHeaderImpl::Header (raw fields as they lie in memory)
  Segments,     \* ELFFile::Segments
  Sections,     \* ELFFile::Sections
  StrSection,   \* ELFFile::StrSection
  iter,         \* loop counter of loadSegmentsFromFile / loadSectionsFromFile
  \* ---- typed section views -----------------------------------------------
  qpc,          \* position of the view scenario: "idle", "base", "view", "answered"
  view,         \* the section and, once upcast, the typed view built from it
  qIndex,       \* the index or offset handed to the getter
  qResult,      \* what the getter returned
  \* ---- ELFFile copy construction -----------------------------------------
  copied        \* the object built by ELFFile(const ELFFile&), once built

convVars == <<cpc, cHost, cFile, NeedConv, NeedConvRev, cKind, cIn, cOut, cOut2, cBack>>
openVars == <<pc, file, hostLittle, Input, err, e_ident, Is64Bit, IsLittleEndian,
              Converter, FileHeader, Segments, Sections, StrSection, iter>>
queryVars == <<qpc, view, qIndex, qResult>>
copyVars == <<copied>>
vars == <<convVars, openVars, queryVars, copyVars>>

(***************************************************************************)
(* Bounds of the model.                                                    *)
(***************************************************************************)
\* bytes of the converter's inputs range over 0..MaxByte (plus the test's values)
MaxByte == 1

(***************************************************************************)
(* Values.  An integer of w bits is the sequence of its w/8 bytes, least   *)
(* significant byte first (index 1 is value & 0xFF).                       *)
(***************************************************************************)
KindWidth(k) ==
  CASE k \in {"u8", "s8"}   -> 1
    [] k \in {"u16", "s16"} -> 2
    [] k \in {"u32", "s32"} -> 4
    [] k \in {"u64", "s64"} -> 8

\* EndianessConverter(host_enc, file_enc)
ConverterCtor2(host_enc, file_enc) == host_enc # file_enc

\* EndianessConverter(littleEndian): the host's encoding is detected
ConverterCtor1(isHostLittleEndian, littleEndian) == isHostLittleEndian # littleEndian

\* operator()(uint8_t) and operator()(int8_t)
ConvertU8(needConv, value) == value

\* a shift typo: only the low byte is moved up, the high byte is dropped
ConvertU16LowOnly(needConv, value) ==
  IF ~needConv THEN value ELSE <<0, value[1]>>

\* operator()(uint16_t): ((value & 0x00FF) << 8) | ((value & 0xFF00) >> 8)
ConvertU16(needConv, value) ==
  IF ~needConv THEN value ELSE <<value[2], value[1]>>

\* a mask typo: the two middle bytes stay where they are
ConvertU32OuterOnly(needConv, value) ==
  IF ~needConv THEN value ELSE <<value[4], value[2], value[3], value[1]>>

\* operator()(uint32_t): byte 0 << 24 | byte 1 << 8 | byte 2 >> 8 | byte 3 >> 24
ConvertU32(needConv, value) ==
  IF ~needConv THEN value
  ELSE <<value[4], value[3], value[2], value[1]>>

\* operator()(uint64_t): bytes 0..7 shifted by 56, 40, 24, 8 left and right
ConvertU64(needConv, value) ==
  IF ~needConv THEN value
  ELSE <<value[8], value[7], value[6], value[5],
         value[4], value[3], value[2], value[1]>>

\* operator()(int16_t): (int16_t)(*this)((uint16_t) value); the casts keep the bytes
ConvertS16(needConv, value) ==
  IF ~needConv THEN value ELSE ConvertU16(needConv, value)

\* operator()(int32_t)
ConvertS32(needConv, value) ==
  IF ~needConv THEN value ELSE ConvertU32(needConv, value)

\* operator()(int64_t)
ConvertS64(needConv, value) ==
  IF ~needConv THEN value ELSE ConvertU64(needConv, value)

\* overload resolution of operator() by the static type of the argument
Convert(needConv, kind, value) ==
  CASE kind \in {"u8", "s8"} -> ConvertU8(needConv, value)
    [] kind = "u16" -> ConvertU16(needConv, value)
    [] kind = "s16" -> ConvertS16(needConv, value)
    [] kind = "u32" -> ConvertU32(needConv, value)
    [] kind = "s32" -> ConvertS32(needConv, value)
    [] kind = "u64" -> ConvertU64(needConv, value)
    [] kind = "s64" -> ConvertS64(needConv, value)

(***************************************************************************)
(* The converter scenario: build the converters for (host, file) and       *)
(* (file, host), convert a value, convert the result again, convert the    *)
(* result with the opposite converter.                                     *)
(***************************************************************************)
Kinds == {"u8", "s8", "u16", "s16", "u32", "s32", "u64", "s64"}

ByteVals == 0..MaxByte

\* the values of test/main.cpp: 0xDEADBEEF, 0x00102442, (uint16_t) 0x01, 0x01
TestValues ==
  { <<239, 190, 173, 222>>, <<66, 36, 16, 0>>, <<1, 0>>, <<1, 0, 0, 0>> }

ValuesOf(kind) ==
  [1..KindWidth(kind) -> ByteVals]
    \cup { v \in TestValues : Len(v) = KindWidth(kind) }

ConvConstruct ==
  /\ cpc = "new"
  /\ \E h \in BOOLEAN, f \in BOOLEAN :
       /\ cHost' = h
       /\ cFile' = f
       /\ NeedConv' = ConverterCtor2(h, f)
       /\ NeedConvRev' = ConverterCtor2(f, h)
  /\ cpc' = "built"
  /\ UNCHANGED <<cKind, cIn, cOut, cOut2, cBack, openVars, queryVars, copyVars>>

ConvApply ==
  /\ cpc = "built"
  /\ \E k \in Kinds : \E x \in ValuesOf(k) :
       /\ cKind' = k
       /\ cIn' = x
       /\ cOut' = Convert(NeedConv, k, x)
  /\ cpc' = "once"
  /\ UNCHANGED <<cHost, cFile, NeedConv, NeedConvRev, cOut2, cBack, openVars, queryVars, copyVars>>

ConvApplyAgain ==
  /\ cpc = "once"
  /\ cOut2' = Convert(NeedConv, cKind, cOut)
  /\ cpc' = "twice"
  /\ UNCHANGED <<cHost, cFile, NeedConv, NeedConvRev, cKind, cIn, cOut, cBack, openVars, queryVars, copyVars>>

ConvApplyRev ==
  /\ cpc = "twice"
  /\ cBack' = Convert(NeedConvRev, cKind, cOut)
  /\ cpc' = "back"
  /\ UNCHANGED <<cHost, cFile, NeedConv, NeedConvRev, cKind, cIn, cOut, cOut2, openVars, queryVars, copyVars>>

ConvIdle ==
  /\ cpc = "idle" /\ cHost = FALSE /\ cFile = FALSE
  /\ NeedConv = FALSE /\ NeedConvRev = FALSE
  /\ cKind = "u8" /\ cIn = <<0>> /\ cOut = <<0>> /\ cOut2 = <<0>> /\ cBack = <<0>>

OpenIdle ==
  /\ pc = "idle"
  /\ file = [exists |-> FALSE, ident |-> <<>>, data |-> <<>>]
  /\ hostLittle = TRUE
  /\ Input = [open |-> FALSE, good |-> FALSE]
  /\ err = "none"
  /\ e_ident = <<>>
  /\ Is64Bit = FALSE /\ IsLittleEndian = FALSE /\ Converter = FALSE
  /\ FileHeader = <<>> /\ Segments = <<>> /\ Sections = <<>>
  /\ StrSection = <<>> /\ iter = 0

\* no typed view is looked at
QueryIdle ==
  /\ qpc = "idle" /\ view = <<>> /\ qIndex = 0 /\ qResult = <<>>

\* no copy of an image has been made
CopyIdle == copied = <<>>

InitConv ==
  /\ QueryIdle
  /\ CopyIdle
  /\ cpc = "new" /\ cHost = FALSE /\ cFile = FALSE
  /\ NeedConv = FALSE /\ NeedConvRev = FALSE
  /\ cKind = "u8" /\ cIn = <<0>> /\ cOut = <<0>> /\ cOut2 = <<0>> /\ cBack = <<0>>
  /\ OpenIdle

NextConv ==
  \/ ConvConstruct
  \/ ConvApply
  \/ ConvApplyAgain
  \/ ConvApplyRev

SpecConv == InitConv /\ [][NextConv]_vars

(***************************************************************************)
(* Constants of <elf.h> used by the code.                                  *)
(***************************************************************************)
EI_NIDENT == 16
ELFCLASS32 == 1
ELFCLASS64 == 2
ELFDATA2LSB == 1
ELFDATA2MSB == 2
PT_NULL == 0
SHT_NULL == 0
SHT_NOBITS == 8
SHF_ALLOC == 2
SHN_UNDEF == 0
\* ELFMAG, "\177ELF"
ELFMAG == <<127, 69, 76, 70>>
\* the ' ' the data buffers are filled with before the file is read into them
Blank == 32

(***************************************************************************)
(* Bounds of the file family.                                              *)
(***************************************************************************)
\* largest e_phnum of a file
MaxPh == 1
\* largest e_shnum of a file; e_shstrndx ranges over 0..MaxSh
MaxSh == 2

(***************************************************************************)
(* Header fields.  A field of a header struct is kept as the value the     *)
(* host sees in memory (a byte sequence, least significant byte first).    *)
(* Numbers are written in two's complement view: n >= 0 is n, and n < 0    *)
(* stands for 2^64 + n, so that + on the integers is + modulo 2^64.        *)
(***************************************************************************)
\* the n bytes of the number r (|r| < 128; r < 0 only for n = 8)
Bytes(r, n) ==
  [i \in 1..n |-> IF r >= 0 THEN (IF i = 1 THEN r ELSE 0)
                  ELSE (IF i = 1 THEN 256 + r ELSE 255)]

\* the number a byte sequence holds; a 4-byte value widens to 64 bits unsigned
Val(b) ==
  IF \A i \in 2..Len(b) : b[i] = 0 THEN b[1]
  ELSE IF Len(b) = 8 /\ \A i \in 2..8 : b[i] = 255 THEN b[1] - 256
  ELSE 1000 + b[Len(b)]

\* the value the host sees in bytes that hold `value` in the file's byte order
HostView(hostIsLittle, fileIsLittle, value) ==
  IF hostIsLittle = fileIsLittle THEN value
  ELSE [i \in 1..Len(value) |-> value[Len(value) + 1 - i]]

\* (*Converter)(field): the overload is chosen by the field's type
ConvertField(needConv, value) ==
  CASE Len(value) = 1 -> ConvertU8(needConv, value)
    [] Len(value) = 2 -> ConvertU16(needConv, value)
    [] Len(value) = 4 -> ConvertU32(needConv, value)
    [] Len(value) = 8 -> ConvertU64(needConv, value)

\* unsigned 64-bit a <= b and a < b on numbers in two's complement view
ULe(a, b) == IF (a < 0) = (b < 0) THEN a <= b ELSE a >= 0
ULt(a, b) == a # b /\ ULe(a, b)

\* width in bytes of Elf32/Elf64 _Addr, _Off and _Xword-sized fields
ClassWidth(is64) == IF is64 THEN 8 ELSE 4

(***************************************************************************)
(* The file.  `file` holds what is fixed when the constructor starts: is   *)
(* it there, its first bytes (at most EI_NIDENT of them matter to the      *)
(* probe), and the bytes the data offsets of the headers address.  The     *)
(* header tables are drawn when they are read: each table slot is read     *)
(* once.                                                                   *)
(***************************************************************************)
Magics == { ELFMAG, <<127, 69, 76, 71>>, <<0, 69, 76, 70>> }

Ident(mag, cls, dat) == mag \o <<cls, dat, 1, 0, 0, 0, 0, 0, 0, 0, 0, 0>>

\* the first 16 bytes of a file of at least 16 bytes
FullIdents == { Ident(m, c, d) : m \in Magics, c \in 0..3, d \in 0..3 }

\* the bytes of a file shorter than 16 bytes
ShortIdents ==
  { SubSeq(Ident(ELFMAG, ELFCLASS64, ELFDATA2LSB), 1, n) : n \in {0, 4, 15} }

\* the bytes the data offsets address: a string table holding "" and "a"
DataImages == { <<0, 97, 0>> }

Files ==
  { [exists |-> FALSE, ident |-> <<>>, data |-> <<>>] }
    \cup [exists : {TRUE}, ident : FullIdents, data : DataImages]
    \cup [exists : {TRUE}, ident : ShortIdents, data : {<<>>}]

\* program headers a file may hold: a loadable segment over the whole data, an
\* unused entry that still names a range, a segment that runs over the end of
\* the file and, in a 64-bit file, a segment of 2^64 - 1 bytes
PhdrInputs(is64) ==
  { [p_type |-> 1, p_offset |-> 0, p_vaddr |-> 0, p_filesz |-> 3, p_memsz |-> 2],
    [p_type |-> PT_NULL, p_offset |-> 0, p_vaddr |-> 0, p_filesz |-> 3, p_memsz |-> 3],
    [p_type |-> 1, p_offset |-> 2, p_vaddr |-> 2, p_filesz |-> 3, p_memsz |-> 3] }
    \cup (IF is64
          THEN { [p_type |-> 1, p_offset |-> 0, p_vaddr |-> 0,
                  p_filesz |-> -1, p_memsz |-> 2] }
          ELSE {})

\* section headers a file may hold: an unused entry that still names a range,
\* the string table, a .bss inside the first segment's addresses and, in a
\* 64-bit file, a .bss whose end lies behind 2^64
ShdrInputs(is64) ==
  { [sh_name |-> 0, sh_type |-> SHT_NULL, sh_flags |-> 0, sh_addr |-> 0,
     sh_offset |-> 0, sh_size |-> 2, sh_link |-> 0, sh_entsize |-> 0],
    [sh_name |-> 1, sh_type |-> 3, sh_flags |-> 0, sh_addr |-> 0,
     sh_offset |-> 0, sh_size |-> 3, sh_link |-> 0, sh_entsize |-> 0],
    [sh_name |-> 1, sh_type |-> SHT_NOBITS, sh_flags |-> SHF_ALLOC, sh_addr |-> 1,
     sh_offset |-> 2, sh_size |-> 1, sh_link |-> 0, sh_entsize |-> 0] }
    \cup (IF is64
          THEN { [sh_name |-> 0, sh_type |-> SHT_NOBITS, sh_flags |-> SHF_ALLOC,
                  sh_addr |-> 1, sh_offset |-> 0, sh_size |-> -1, sh_link |-> 0, sh_entsize |-> 0] }
          ELSE {})

(***************************************************************************)
(* ELFHeaderImpl (private_impl.h).                                         *)
(***************************************************************************)
\* the fields the constructor fills before it reads the file; the rest is '\0'
HeaderDefaults(needConv) ==
  [e_phnum    |-> Bytes(0, 2),
   e_shnum    |-> Bytes(0, 2),
   e_shstrndx |-> ConvertU16(needConv, Bytes(1, 2))]

\* stream.read(&Header, sizeof(Header)) of a file that holds the whole header
HeaderRead(hostIsLittle, fileIsLittle, fields) ==
  [f \in DOMAIN fields |-> HostView(hostIsLittle, fileIsLittle, Bytes(fields[f], 2))]

getProgramHeaderNumber == Val(ConvertField(Converter, FileHeader.e_phnum))
getSectionHeaderNumber == Val(ConvertField(Converter, FileHeader.e_shnum))
getSectionHeaderStringTableIndex == Val(ConvertField(Converter, FileHeader.e_shstrndx))

(***************************************************************************)
(* ELFFile::ELFFile(filename), up to the file header.                      *)
(***************************************************************************)
NoHeader == [e_phnum |-> Bytes(0, 2), e_shnum |-> Bytes(0, 2), e_shstrndx |-> Bytes(0, 2)]

Init ==
  /\ ConvIdle
  /\ QueryIdle
  /\ CopyIdle
  /\ pc = "start"
  /\ file \in Files
  /\ hostLittle \in BOOLEAN
  /\ Input = [open |-> FALSE, good |-> FALSE]
  /\ err = "none"
  /\ e_ident = <<>>
  /\ Is64Bit = FALSE
  /\ IsLittleEndian = FALSE
  /\ Converter = FALSE
  /\ FileHeader = NoHeader
  /\ Segments = <<>>
  /\ Sections = <<>>
  /\ StrSection = <<>>
  /\ iter = 0

\* an exception that leaves the stream as it is
ThrowKeepsStream(what) ==
  /\ err' = what
  /\ pc' = "failed"
  /\ Input' = Input

\* an exception leaves the constructor: Input is destroyed, which closes it
Throw(what) ==
  /\ err' = what
  /\ pc' = "failed"
  /\ Input' = [open |-> FALSE, good |-> FALSE]

\* !Input.good() after std::ifstream Input(filename)
\* the stream test left out
OpenNeverFails(f) == FALSE
OpenFails(f) == ~f.exists

\* std::ifstream Input(filename); if (!Input.good()) throw
OpenStream ==
  /\ pc = "start"
  /\ IF OpenFails(file)
     THEN Throw("File does not exist!")
     ELSE /\ Input' = [open |-> TRUE, good |-> TRUE]
          /\ pc' = "ident"
          /\ err' = err
  /\ UNCHANGED <<file, hostLittle, e_ident, Is64Bit, IsLittleEndian, Converter,
                 FileHeader, Segments, Sections, StrSection, iter, convVars, queryVars, copyVars>>

\* the magic check with the comparison cut to the first three bytes
BadMagic3(gcount, ident) ==
  gcount # EI_NIDENT \/ SubSeq(ident, 1, 3) # SubSeq(ELFMAG, 1, 3)

\* Input.gcount() != sizeof(e_ident) || memcmp(e_ident, ELFMAG, strlen(ELFMAG)) != 0
BadMagic(gcount, ident) ==
  gcount # EI_NIDENT \/ SubSeq(ident, 1, Len(ELFMAG)) # ELFMAG

\* Input.seekg(0); Input.read(e_ident, sizeof(e_ident)); the magic check
ReadIdent ==
  /\ pc = "ident"
  /\ e_ident' = file.ident
  /\ IF BadMagic(Len(file.ident), file.ident)
     THEN Throw("Invalid magic number!")
     ELSE /\ pc' = "class"
          /\ UNCHANGED <<err, Input>>
  /\ UNCHANGED <<file, hostLittle, Is64Bit, IsLittleEndian, Converter,
                 FileHeader, Segments, Sections, StrSection, iter, convVars, queryVars, copyVars>>

\* the class switch with the two cases exchanged
ClassOfSwapped(b) ==
  CASE b = ELFCLASS32 -> "64" [] b = ELFCLASS64 -> "32" [] OTHER -> "bad"

\* switch (e_ident[EI_CLASS])
ClassOf(b) ==
  CASE b = ELFCLASS32 -> "32" [] b = ELFCLASS64 -> "64" [] OTHER -> "bad"

\* switch (e_ident[EI_DATA])
DataOf(b) ==
  CASE b = ELFDATA2LSB -> "little" [] b = ELFDATA2MSB -> "big" [] OTHER -> "bad"

CheckClass ==
  /\ pc = "class"
  /\ LET c == ClassOf(e_ident[5]) IN
       IF c = "bad"
       THEN Throw("Invalid ELF file class!") /\ Is64Bit' = Is64Bit
       ELSE /\ Is64Bit' = (c = "64")
            /\ pc' = "data"
            /\ UNCHANGED <<err, Input>>
  /\ UNCHANGED <<file, hostLittle, e_ident, IsLittleEndian, Converter,
                 FileHeader, Segments, Sections, StrSection, iter, convVars, queryVars, copyVars>>

CheckData ==
  /\ pc = "data"
  /\ LET d == DataOf(e_ident[6]) IN
       IF d = "bad"
       THEN Throw("Invalid ELF encoding!") /\ IsLittleEndian' = IsLittleEndian
       ELSE /\ IsLittleEndian' = (d = "little")
            /\ pc' = "header"
            /\ UNCHANGED <<err, Input>>
  /\ UNCHANGED <<file, hostLittle, e_ident, Is64Bit, Converter,
                 FileHeader, Segments, Sections, StrSection, iter, convVars, queryVars, copyVars>>

\* the calls that follow the file header, in the order of the constructor
NextCallSectionsFirst(after) ==
  CASE after = "header" -> "sections"
    [] after = "sections" -> "segments"
    [] after = "segments" -> "close"

NextCall(after) ==
  CASE after = "header" -> "segments"
    [] after = "segments" -> "sections"
    [] after = "sections" -> "close"

\* Converter = make_shared<EndianessConverter>(IsLittleEndian);
\* FileHeader = make_shared<ELFHeaderImpl<...>>(Converter, IsLittleEndian, Input)
ReadHeader ==
  /\ pc = "header"
  /\ LET nc == ConverterCtor1(hostLittle, IsLittleEndian) IN
       /\ Converter' = nc
       /\ \/ \E ph \in 0..MaxPh, sh \in 0..MaxSh, sx \in 0..MaxSh :
               \* the file holds sizeof(Header) bytes
               /\ FileHeader' = HeaderRead(hostLittle, IsLittleEndian,
                      [e_phnum |-> ph, e_shnum |-> sh, e_shstrndx |-> sx])
               /\ Input' = Input
          \/ \* the file ends behind e_ident: the fields keep what was filled in
             /\ FileHeader' = HeaderDefaults(nc)
             /\ Input' = [Input EXCEPT !.good = FALSE]
  /\ pc' = NextCall("header")
  /\ iter' = 0
  /\ UNCHANGED <<file, hostLittle, err, e_ident, Is64Bit, IsLittleEndian,
                 Segments, Sections, StrSection, convVars, queryVars, copyVars>>

(***************************************************************************)
(* Reading the data a header points to.                                    *)
(***************************************************************************)
\* std::string(Size, ' ') throws std::length_error above max_size(): any Size
\* of 2^63 or more (negative in two's complement view) is above it
ExceedsMaxSize(Size) == Size < 0

\* what constructing the buffer can do: nothing is allocated for no buffer
AllocOutcomes(wanted, Size) ==
  IF ~wanted THEN {"none"}
  ELSE IF ExceedsMaxSize(Size) THEN {"length_error"}
  ELSE IF Size = 0 THEN {"ok"}
  ELSE {"ok", "bad_alloc"}

\* all Size bytes at offset lie in the file
DataComplete(offset, Size) == offset >= 0 /\ offset + Size <= Len(file.data)

\* Data = std::string(Size, ' '); stream.seekg(offset); stream.read(&Data[0], Size):
\* the bytes the file holds are read, the others stay ' '
ReadData(streamGood, offset, Size) ==
  [i \in 1..Size |->
     IF streamGood /\ offset >= 0 /\ offset + i <= Len(file.data)
     THEN file.data[offset + i] ELSE Blank]

(***************************************************************************)
(* SegmentImpl (private_impl.h).                                           *)
(***************************************************************************)
\* SegmentImpl(converter): std::fill_n(&Header, sizeof(Header), '\0')
ZeroPhdr(is64) ==
  [p_type   |-> Bytes(0, 4),
   p_offset |-> Bytes(0, ClassWidth(is64)),
   p_vaddr  |-> Bytes(0, ClassWidth(is64)),
   p_filesz |-> Bytes(0, ClassWidth(is64)),
   p_memsz  |-> Bytes(0, ClassWidth(is64))]

\* a program header of the file as stream.read leaves it in Header
RawPhdr(is64, r) ==
  [p_type   |-> HostView(hostLittle, IsLittleEndian, Bytes(r.p_type, 4)),
   p_offset |-> HostView(hostLittle, IsLittleEndian, Bytes(r.p_offset, ClassWidth(is64))),
   p_vaddr  |-> HostView(hostLittle, IsLittleEndian, Bytes(r.p_vaddr, ClassWidth(is64))),
   p_filesz |-> HostView(hostLittle, IsLittleEndian, Bytes(r.p_filesz, ClassWidth(is64))),
   p_memsz  |-> HostView(hostLittle, IsLittleEndian, Bytes(r.p_memsz, ClassWidth(is64)))]

SegmentGetType(seg) == Val(ConvertField(Converter, seg.Header.p_type))
SegmentGetOffset(seg) == Val(ConvertField(Converter, seg.Header.p_offset))
getVirtualAddress(seg) == Val(ConvertField(Converter, seg.Header.p_vaddr))
getFileSize(seg) == Val(ConvertField(Converter, seg.Header.p_filesz))
getMemorySize(seg) == Val(ConvertField(Converter, seg.Header.p_memsz))
getAssociatedSections(seg) == seg.SectionIndices

\* what a header read leaves: a header of the file, or nothing at the end of
\* the file; a stream that failed before reads nothing
PhdrReads ==
  IF Input.good
  THEN { [hdr |-> RawPhdr(Is64Bit, r), good |-> TRUE] : r \in PhdrInputs(Is64Bit) }
         \cup { [hdr |-> ZeroPhdr(Is64Bit), good |-> FALSE] }
  ELSE { [hdr |-> ZeroPhdr(Is64Bit), good |-> FALSE] }

\* getType() != PT_NULL && Size != 0
SegmentWantsData(type, Size) == type # PT_NULL /\ Size # 0

\* loadSegment(stream, offset) and setIndex(index); `alloc` is what the
\* construction of the buffer did ("none", "ok" or "bad_alloc"), kept in the
\* history field Alloc that no code reads
loadSegment(rd, alloc, index) ==
  LET seg0   == [Header |-> rd.hdr, Index |-> index, Data |-> <<>>,
                 SectionIndices |-> <<>>, Alloc |-> alloc]
      Size   == getFileSize(seg0)
      offset == SegmentGetOffset(seg0)
      data   == IF alloc = "ok" THEN ReadData(rd.good, offset, Size) ELSE <<>>
  IN  [seg  |-> [seg0 EXCEPT !.Data = data],
       good |-> IF data # <<>> THEN rd.good /\ DataComplete(offset, Size)
                ELSE rd.good]

\* addSectionIndex(index)
addSectionIndex(seg, index) ==
  IF \E k \in 1..Len(seg.SectionIndices) : seg.SectionIndices[k] = index
  THEN seg
  ELSE [seg EXCEPT !.SectionIndices = Append(@, index)]

(***************************************************************************)
(* SectionImpl and StringSectionImpl (private_impl.h).                     *)
(***************************************************************************)
ZeroShdr(is64) ==
  [sh_name   |-> Bytes(0, 4),
   sh_type   |-> Bytes(0, 4),
   sh_flags  |-> Bytes(0, ClassWidth(is64)),
   sh_addr   |-> Bytes(0, ClassWidth(is64)),
   sh_offset |-> Bytes(0, ClassWidth(is64)),
   sh_size   |-> Bytes(0, ClassWidth(is64)),
   sh_link   |-> Bytes(0, 4),
   sh_entsize |-> Bytes(0, ClassWidth(is64))]

RawShdr(is64, r) ==
  [sh_name   |-> HostView(hostLittle, IsLittleEndian, Bytes(r.sh_name, 4)),
   sh_type   |-> HostView(hostLittle, IsLittleEndian, Bytes(r.sh_type, 4)),
   sh_flags  |-> HostView(hostLittle, IsLittleEndian, Bytes(r.sh_flags, ClassWidth(is64))),
   sh_addr   |-> HostView(hostLittle, IsLittleEndian, Bytes(r.sh_addr, ClassWidth(is64))),
   sh_offset |-> HostView(hostLittle, IsLittleEndian, Bytes(r.sh_offset, ClassWidth(is64))),
   sh_size   |-> HostView(hostLittle, IsLittleEndian, Bytes(r.sh_size, ClassWidth(is64))),
   sh_link   |-> HostView(hostLittle, IsLittleEndian, Bytes(r.sh_link, 4)),
   sh_entsize |-> HostView(hostLittle, IsLittleEndian, Bytes(r.sh_entsize, ClassWidth(is64)))]

getType(sec) == Val(ConvertField(Converter, sec.Header.sh_type))
getFlags(sec) == Val(ConvertField(Converter, sec.Header.sh_flags))
getAddress(sec) == Val(ConvertField(Converter, sec.Header.sh_addr))
getOffset(sec) == Val(ConvertField(Converter, sec.Header.sh_offset))
getSize(sec) == Val(ConvertField(Converter, sec.Header.sh_size))
getNameStringOffset(sec) == Val(ConvertField(Converter, sec.Header.sh_name))
getLink(sec) == Val(ConvertField(Converter, sec.Header.sh_link))
getEntrySize(sec) == Val(ConvertField(Converter, sec.Header.sh_entsize))
getIndex(sec) == sec.Index
getName(sec) == sec.Name

ShdrReads ==
  IF Input.good
  THEN { [hdr |-> RawShdr(Is64Bit, r), good |-> TRUE] : r \in ShdrInputs(Is64Bit) }
         \cup { [hdr |-> ZeroShdr(Is64Bit), good |-> FALSE] }
  ELSE { [hdr |-> ZeroShdr(Is64Bit), good |-> FALSE] }

\* the condition of loadSection without the test for SHT_NOBITS
SectionWantsDataNoBits(type) == type # SHT_NULL

\* Data.empty() && getType() != SHT_NULL && getType() != SHT_NOBITS, on the
\* fresh section loadSectionsFromFile makes
SectionWantsData(type) == type # SHT_NULL /\ type # SHT_NOBITS

\* loadSection(stream, offset) and setIndex(index)
loadSection(rd, alloc, index) ==
  LET sec0   == [Header |-> rd.hdr, Index |-> index, Name |-> <<>>, Data |-> <<>>,
                 Alloc |-> alloc]
      Size   == getSize(sec0)
      offset == getOffset(sec0)
      data   == IF alloc = "ok" THEN ReadData(rd.good, offset, Size) ELSE <<>>
  IN  [sec  |-> [sec0 EXCEPT !.Data = data],
       good |-> IF data # <<>> THEN rd.good /\ DataComplete(offset, Size)
                ELSE rd.good]

\* the bytes of data from position i (counted from 1) up to the next NUL;
\* the buffer of a std::string ends with a NUL of its own
RECURSIVE CStr(_, _)
CStr(data, i) ==
  IF i > Len(data) \/ data[i] = 0 THEN <<>>
  ELSE <<data[i]>> \o CStr(data, i + 1)

\* getString(index) reads behind the NUL that ends the buffer
getStringReadsOutside(sec, index) ==
  ULt(index, getSize(sec)) /\ index > Len(sec.Data)

\* StringSectionImpl::getString(index), for an index it reads inside the buffer
getString(sec, index) ==
  IF ULt(index, getSize(sec)) THEN CStr(sec.Data, index + 1) ELSE <<>>

(***************************************************************************)
(* ELFFile::loadSegmentsFromFile (libelfpp.cpp).                           *)
(***************************************************************************)
\* the loop condition with the last entry left out
KeepLoadingButLast(it, number) == it + 1 < number

\* iter < segmentNumber, iter < sectionNumber
KeepLoading(it, number) == it < number

\* the test of the loop over Sections: is Section inside Seg
SectionInSegment(seg, sec) ==
  LET baseOff   == SegmentGetOffset(seg)
      endOff    == baseOff + getFileSize(seg)
      vBaseAddr == getVirtualAddress(seg)
      vEndAddr  == vBaseAddr + getMemorySize(seg)
  IN  IF (getFlags(sec) \div SHF_ALLOC) % 2 = 1
      THEN ULe(vBaseAddr, getAddress(sec))
             /\ ULe(getAddress(sec) + getSize(sec), vEndAddr)
      ELSE ULe(baseOff, getOffset(sec))
             /\ ULe(getOffset(sec) + getSize(sec), endOff)

\* for (const auto& Section : Sections) ... Seg->addSectionIndex(...)
RECURSIVE AssociateSections(_, _, _)
AssociateSections(seg, secs, k) ==
  IF k > Len(secs) THEN seg
  ELSE AssociateSections(
         IF SectionInSegment(seg, secs[k])
         THEN addSectionIndex(seg, getIndex(secs[k])) ELSE seg,
         secs, k + 1)

\* one turn of the loop of loadSegmentsFromFile
LoadSegment ==
  /\ pc = "segments"
  /\ KeepLoading(iter, getProgramHeaderNumber)
  /\ \E rd \in PhdrReads :
       LET h    == [Header |-> rd.hdr]
           Size == getFileSize(h)
       IN  \E alloc \in AllocOutcomes(SegmentWantsData(SegmentGetType(h), Size), Size) :
             IF alloc = "length_error"
             THEN /\ Throw("basic_string::_M_create")
                  /\ UNCHANGED <<Segments, iter>>
             ELSE LET ld == loadSegment(rd, alloc, iter) IN
                    /\ Segments' = Append(Segments, AssociateSections(ld.seg, Sections, 1))
                    /\ Input' = [Input EXCEPT !.good = ld.good]
                    /\ iter' = iter + 1
                    /\ UNCHANGED <<pc, err>>
  /\ UNCHANGED <<file, hostLittle, e_ident, Is64Bit, IsLittleEndian, Converter,
                 FileHeader, Sections, StrSection, convVars, queryVars, copyVars>>

\* the loop ends; return segmentNumber
LoadSegmentsDone ==
  /\ pc = "segments"
  /\ ~KeepLoading(iter, getProgramHeaderNumber)
  /\ pc' = NextCall("segments")
  /\ iter' = 0
  /\ UNCHANGED <<file, hostLittle, Input, err, e_ident, Is64Bit, IsLittleEndian,
                 Converter, FileHeader, Segments, Sections, StrSection, convVars, queryVars, copyVars>>

(***************************************************************************)
(* ELFFile::loadSectionsFromFile (libelfpp.cpp).                           *)
(***************************************************************************)
\* one turn of the loop of loadSectionsFromFile
LoadSection ==
  /\ pc = "sections"
  /\ KeepLoading(iter, getSectionHeaderNumber)
  /\ \E rd \in ShdrReads :
       LET h    == [Header |-> rd.hdr]
           Size == getSize(h)
       IN  \E alloc \in AllocOutcomes(SectionWantsData(getType(h)), Size) :
             IF alloc = "length_error"
             THEN /\ Throw("basic_string::_M_create")
                  /\ UNCHANGED <<Sections, iter>>
             ELSE LET ld == loadSection(rd, alloc, iter) IN
                    /\ Sections' = Append(Sections, ld.sec)
                    /\ Input' = [Input EXCEPT !.good = ld.good]
                    /\ iter' = iter + 1
                    /\ UNCHANGED <<pc, err>>
  /\ UNCHANGED <<file, hostLittle, e_ident, Is64Bit, IsLittleEndian, Converter,
                 FileHeader, Segments, StrSection, convVars, queryVars, copyVars>>

\* the loop ends; the primary string section is looked up next
LoadSectionsDone ==
  /\ pc = "sections"
  /\ ~KeepLoading(iter, getSectionHeaderNumber)
  /\ pc' = "names"
  /\ iter' = 0
  /\ UNCHANGED <<file, hostLittle, Input, err, e_ident, Is64Bit, IsLittleEndian,
                 Converter, FileHeader, Segments, Sections, StrSection, convVars, queryVars, copyVars>>

\* what a read outside an object can give as a string
GarbageStrings == { <<>>, <<97>> }

\* the process dies on an access outside an object
Crash ==
  /\ pc' = "crashed"
  /\ err' = "SIGSEGV"
  /\ UNCHANGED <<Sections, StrSection>>

\* Sections[StringIndex] names no element of Sections
IndexOutsideSections(StringIndex) == ~(StringIndex < Len(Sections))

\* if (StringIndex != SHN_UNDEF) { StrSection = copy of Sections[StringIndex];
\*   for (Sec : Sections) Sec->setName(StrSection->getString(...)); }
\* Sections[StringIndex] outside the vector and getString outside the buffer
\* are undefined: the process dies or goes on with what lies there
ResolveNames ==
  /\ pc = "names"
  /\ LET StringIndex == getSectionHeaderStringTableIndex IN
       IF StringIndex = SHN_UNDEF
       THEN /\ pc' = NextCall("sections")
            /\ UNCHANGED <<err, Sections, StrSection>>
       ELSE IF ~IndexOutsideSections(StringIndex)
       THEN LET str == Sections[StringIndex + 1]
                out == { i \in 1..Len(Sections) :
                           getStringReadsOutside(str, getNameStringOffset(Sections[i])) }
            IN  \/ out # {} /\ Crash
                \/ \E g \in (IF out = {} THEN {<<>>} ELSE GarbageStrings) :
                     /\ StrSection' = <<str>>
                     /\ Sections' =
                          [i \in 1..Len(Sections) |->
                             [Sections[i] EXCEPT !.Name =
                                IF i \in out THEN g
                                ELSE getString(str, getNameStringOffset(Sections[i]))]]
                     /\ pc' = NextCall("sections")
                     /\ err' = err
       ELSE \/ Crash
            \/ \E g \in GarbageStrings :
                 /\ StrSection' = <<[Header |-> ZeroShdr(Is64Bit), Index |-> 0,
                                     Name |-> <<>>, Data |-> g, Alloc |-> "none"]>>
                 /\ Sections' =
                      [i \in 1..Len(Sections) |-> [Sections[i] EXCEPT !.Name = g]]
                 /\ pc' = NextCall("sections")
                 /\ err' = err
  /\ UNCHANGED <<file, hostLittle, Input, e_ident, Is64Bit, IsLittleEndian,
                 Converter, FileHeader, Segments, iter, convVars, queryVars, copyVars>>

\* Input.close(); the constructor returns
Close ==
  /\ pc = "close"
  /\ Input' = [open |-> FALSE, good |-> Input.good]
  /\ pc' = "done"
  /\ UNCHANGED <<file, hostLittle, err, e_ident, Is64Bit, IsLittleEndian,
                 Converter, FileHeader, Segments, Sections, StrSection, iter,
                 convVars, queryVars, copyVars>>

(***************************************************************************)
(* ELFFile::ELFFile(const ELFFile& other).                                 *)
(***************************************************************************)
\* the members of the object the constructor has built; the file named by
\* Filename stands for the name
This ==
  [Filename |-> file, IsLittleEndian |-> IsLittleEndian, Is64Bit |-> Is64Bit,
   Converter |-> Converter, FileHeader |-> FileHeader, Segments |-> Segments,
   Sections |-> Sections, StrSection |-> StrSection]

\* Filename(other.Filename), IsLittleEndian(other.IsLittleEndian),
\* Is64Bit(other.Is64Bit), Converter(other.Converter),
\* FileHeader(other.FileHeader), Segments(other.Segments),
\* StrSection(other.StrSection): Sections is not in the initialiser list and
\* is default-constructed
ELFFileCopy(other) ==
  [Filename |-> other.Filename, IsLittleEndian |-> other.IsLittleEndian,
   Is64Bit |-> other.Is64Bit, Converter |-> other.Converter,
   FileHeader |-> other.FileHeader, Segments |-> other.Segments,
   Sections |-> <<>>, StrSection |-> other.StrSection]

\* ELFFile copy(image); for an image whose constructor has returned
CopyImage ==
  /\ pc = "done"
  /\ copied = <<>>
  /\ copied' = <<ELFFileCopy(This)>>
  /\ UNCHANGED <<openVars, convVars, queryVars>>

Next ==
  \/ OpenStream
  \/ ReadIdent
  \/ CheckClass
  \/ CheckData
  \/ ReadHeader
  \/ LoadSegment
  \/ LoadSegmentsDone
  \/ LoadSection
  \/ LoadSectionsDone
  \/ ResolveNames
  \/ Close
  \/ CopyImage

Spec == Init /\ [][Next]_vars

(***************************************************************************)
(* C1: for every 16-, 32- and 64-bit value (unsigned and signed overloads) *)
(* and every converter built from (host_little, file_little), the result   *)
(* of convert is the value itself when the encodings are equal and the     *)
(* value with its bytes in reverse order when they differ; an 8-bit value  *)
(* is returned unchanged in both cases.                                    *)
(***************************************************************************)
RECURSIVE Reversed(_)
Reversed(s) ==
  IF s = <<>> THEN <<>> ELSE Append(Reversed(Tail(s)), Head(s))

C1_ConvertContract ==
  cpc \in {"once", "twice", "back"} =>
    cOut = IF KindWidth(cKind) = 1 THEN cIn
           ELSE IF cHost = cFile THEN cIn
           ELSE Reversed(cIn)

\* the test's Converter3(0xDEADBEEF) == 0xEFBEADDE has happened
C1_Witness ==
  /\ cpc = "once" /\ cHost # cFile /\ cKind = "u32"
  /\ cIn = <<239, 190, 173, 222>>
  /\ cOut = <<222, 173, 190, 239>>

(***************************************************************************)
(* C2: on every multi-byte width, converting twice with a converter whose  *)
(* host and file encodings differ gives the value back, and for every pair *)
(* of encodings the converter built for (file, host) undoes the converter  *)
(* built for (host, file).                                                 *)
(***************************************************************************)
C2_RoundTrip ==
  /\ (cpc \in {"twice", "back"} /\ KindWidth(cKind) > 1 /\ cHost # cFile)
       => cOut2 = cIn
  /\ cpc = "back" => cBack = cIn

\* a 64-bit value was changed by the first conversion and restored by the second
C2_Witness ==
  /\ cpc = "back" /\ cHost # cFile /\ cKind = "u64"
  /\ cOut # cIn /\ cOut2 = cIn /\ cBack = cIn

(***************************************************************************)
(* Claims about ELFFile::ELFFile.  An image is what the constructor leaves *)
(* when it returns: pc = "done".                                           *)
(***************************************************************************)
\* the first four bytes of the file are 0x7F 'E' 'L' 'F'
MagicBytesOK(id) == Len(id) >= 4 /\ \A i \in 1..4 : id[i] = ELFMAG[i]

PastIdent == pc \notin {"start", "ident"}
PastProbe == pc \notin {"start", "ident", "class", "data"}

(***************************************************************************)
(* C3: opening a file whose first 4 bytes are not 0x7F 'E' 'L' 'F', or     *)
(* that holds fewer than 16 bytes, fails with "Invalid magic number!" and  *)
(* gives no image; a file of at least 16 bytes with the right 4 bytes      *)
(* never fails with that error.                                            *)
(***************************************************************************)
C3_BadMagic ==
  (file.exists /\ PastIdent) =>
    IF Len(file.ident) < EI_NIDENT \/ ~MagicBytesOK(file.ident)
    THEN pc = "failed" /\ err = "Invalid magic number!"
    ELSE err # "Invalid magic number!"

\* a file of 16 bytes whose fourth byte is wrong was refused
C3_Witness ==
  /\ pc = "failed" /\ err = "Invalid magic number!"
  /\ Len(file.ident) = EI_NIDENT /\ file.ident[4] = 71

(***************************************************************************)
(* C4: for a file that passes the magic check, the constructor fails with  *)
(* "Invalid ELF file class!" iff byte 4 is neither 1 nor 2; otherwise it   *)
(* fails with "Invalid ELF encoding!" iff byte 5 is neither 1 nor 2;       *)
(* otherwise Is64Bit holds iff byte 4 is 2 and IsLittleEndian iff byte 5   *)
(* is 1, in every later state.                                             *)
(***************************************************************************)
C4_ClassAndEncoding ==
  (file.exists /\ Len(file.ident) = EI_NIDENT /\ MagicBytesOK(file.ident)) =>
    LET b4 == file.ident[5]
        b5 == file.ident[6]
    IN  /\ pc \notin {"start", "ident", "class"} =>
             ((err = "Invalid ELF file class!") <=> b4 \notin {1, 2})
        /\ (PastProbe /\ b4 \in {1, 2}) =>
             ((err = "Invalid ELF encoding!") <=> b5 \notin {1, 2})
        /\ (PastProbe /\ b4 \in {1, 2} /\ b5 \in {1, 2}) =>
             /\ Is64Bit = (b4 = 2)
             /\ IsLittleEndian = (b5 = 1)

\* a 64-bit big-endian file was probed and the constructor returned
C4_Witness ==
  /\ pc = "done" /\ file.ident[5] = 2 /\ file.ident[6] = 2
  /\ Is64Bit /\ ~IsLittleEndian

(***************************************************************************)
(* C5: opening a path that names no readable file fails with "File does    *)
(* not exist!" before any byte is read, and gives no image.                *)
(***************************************************************************)
C5_FileNotFound ==
  (~file.exists /\ pc # "start") =>
    /\ pc = "failed" /\ err = "File does not exist!"
    /\ e_ident = <<>> /\ ~Input.open
    /\ Segments = <<>> /\ Sections = <<>>

C5_Witness ==
  ~file.exists /\ pc = "failed" /\ err = "File does not exist!"

(***************************************************************************)
(* C6: in every image the number of sections is the header's e_shnum and   *)
(* the number of segments is the header's e_phnum.                         *)
(***************************************************************************)
C6_Counts ==
  pc = "done" =>
    /\ Len(Sections) = getSectionHeaderNumber
    /\ Len(Segments) = getProgramHeaderNumber

\* an image with one segment and two sections
C6_Witness ==
  pc = "done" /\ Len(Segments) = 1 /\ Len(Sections) = 2

(***************************************************************************)
(* The containment rule of the specification, on exact sums: a number n in *)
(* two's complement view is Carry(n) * 2^64 + n.                           *)
(***************************************************************************)
Carry(n) == IF n < 0 THEN 1 ELSE 0

\* a + size <= b + bsize on the exact (unwrapped) sums
EndLe(a, size, b, bsize) ==
  \/ Carry(a) + Carry(size) < Carry(b) + Carry(bsize)
  \/ /\ Carry(a) + Carry(size) = Carry(b) + Carry(bsize)
     /\ a + size <= b + bsize

\* [addr, addr+size) within [vaddr, vaddr+memsz) for an SHF_ALLOC section,
\* [offset, offset+size) within [offset, offset+filesz) of the segment otherwise
WhollyContained(seg, sec) ==
  IF (getFlags(sec) \div SHF_ALLOC) % 2 = 1
  THEN /\ ULe(getVirtualAddress(seg), getAddress(sec))
       /\ EndLe(getAddress(sec), getSize(sec),
                getVirtualAddress(seg), getMemorySize(seg))
  ELSE /\ ULe(SegmentGetOffset(seg), getOffset(sec))
       /\ EndLe(getOffset(sec), getSize(sec),
                SegmentGetOffset(seg), getFileSize(seg))

Associated(seg, index) ==
  \E k \in 1..Len(seg.SectionIndices) : seg.SectionIndices[k] = index

(***************************************************************************)
(* C7: in every image, for every segment whose type is not PT_NULL and     *)
(* every section that the containment rule puts inside it, the section's   *)
(* index is in the segment's list of associated sections.                  *)
(***************************************************************************)
C7_ContainedAreAssociated ==
  pc = "done" =>
    \A i \in 1..Len(Segments), j \in 1..Len(Sections) :
      (SegmentGetType(Segments[i]) # PT_NULL
         /\ WhollyContained(Segments[i], Sections[j]))
        => Associated(Segments[i], getIndex(Sections[j]))

C9_SectionData ==
  pc = "done" =>
    \A j \in 1..Len(Sections) :
      LET sec == Sections[j] IN
        IF getType(sec) \in {SHT_NULL, SHT_NOBITS}
        THEN sec.Data = <<>>
        ELSE sec.Alloc = "ok" => Len(sec.Data) = getSize(sec)

\* the string table of 3 bytes was loaded, next to a .bss that holds nothing
C9_Witness ==
  /\ pc = "done"
  /\ \E j, k \in 1..Len(Sections) :
       /\ getType(Sections[j]) = 3 /\ Sections[j].Alloc = "ok"
       /\ getSize(Sections[j]) = 3 /\ Len(Sections[j].Data) = 3
       /\ getType(Sections[k]) = SHT_NOBITS /\ getSize(Sections[k]) = 1
       /\ Sections[k].Data = <<>>

(***************************************************************************)
(* C10: in every image, for every segment of any type, p_filesz is at most *)
(* the length of the segment's data buffer.                                *)
(***************************************************************************)
C10_FileSizeWithinData ==
  pc = "done" =>
    \A i \in 1..Len(Segments) :
      ULe(getFileSize(Segments[i]), Len(Segments[i].Data))

(***************************************************************************)
(* The string at an offset of a section's data, in the words of the        *)
(* specification: the bytes from the offset up to the next NUL byte, and   *)
(* the empty string for an offset at or behind the end of the data.        *)
(***************************************************************************)
RECURSIVE UpToNul(_, _)
UpToNul(data, i) ==
  IF i > Len(data) \/ data[i] = 0 THEN <<>>
  ELSE <<data[i]>> \o UpToNul(data, i + 1)

StringAt(data, offset) ==
  IF offset >= 0 /\ offset < Len(data) THEN UpToNul(data, offset + 1) ELSE <<>>

(***************************************************************************)
(* C11: in every image whose e_shstrndx = k is not SHN_UNDEF, every        *)
(* section (section k included) is named by the string at offset sh_name   *)
(* of section k.                                                           *)
(***************************************************************************)
C11_NamesFromStringTable ==
  (pc = "done" /\ getSectionHeaderStringTableIndex # SHN_UNDEF) =>
    \A j \in 1..Len(Sections) :
      /\ getSectionHeaderStringTableIndex < Len(Sections)
      /\ getName(Sections[j]) =
           StringAt(Sections[getSectionHeaderStringTableIndex + 1].Data,
                    getNameStringOffset(Sections[j]))

(***************************************************************************)
(* Typed section views (StringSectionImpl, DynamicSectionImpl,             *)
(* SymbolSectionImpl, RelocationSectionImpl, NoteSectionImpl of            *)
(* private_impl.h).  A view is made by fromSection from a section that     *)
(* loadSection has filled; SpecSec loads one section of a small file,      *)
(* makes the view and calls one getter.                                    *)
(***************************************************************************)
(***************************************************************************)
(* Reading records of a section's data.  getData() is Data.c_str(): the    *)
(* buffer's bytes and one NUL.  What lies behind them is not the           *)
(* section's: a read there is undefined, and the view carries what such a  *)
(* read meets, a fault or some byte.                                       *)
(***************************************************************************)
\* what lies behind a buffer: unmapped memory, NUL bytes or the letter a
Behind == {"fault", "zeros", "letters"}

\* the byte at getData() + p
ByteAt(data, p, behind) ==
  IF p < Len(data) THEN data[p + 1]
  ELSE IF p = Len(data) \/ behind # "letters" THEN 0
  ELSE 97

\* a read of n bytes at getData() + p leaves the buffer and its NUL
ReadsOutside(data, p, n) == n > 0 /\ p + n > Len(data) + 1

\* *reinterpret_cast<const X*>(getData() + p), X of n bytes, as the host sees it
HostRead(data, p, n, behind) ==
  HostView(hostLittle, TRUE, [i \in 1..n |-> ByteAt(data, p + i - 1, behind)])

\* integral conversions to the 64-bit members of the result structs
ZeroExt(v) == v \o [i \in 1..(8 - Len(v)) |-> 0]
SignExt(v) == v \o [i \in 1..(8 - Len(v)) |-> IF v[Len(v)] >= 128 THEN 255 ELSE 0]

\* nullptr, and a returned object
Null == [kind |-> "null", val |-> <<>>]
Some(v) == [kind |-> "entry", val |-> v]
Crashed == [kind |-> "SIGSEGV", val |-> <<>>]

\* a count that is one too large
NumEntriesPlusOne(sec) ==
  IF getEntrySize(sec) # 0 THEN getSize(sec) \div getEntrySize(sec) + 1 ELSE 1

\* a count that is rounded up
NumEntriesRoundedUp(sec) ==
  IF getEntrySize(sec) # 0
  THEN (getSize(sec) + getEntrySize(sec) - 1) \div getEntrySize(sec) ELSE 0

\* getNumEntries() / getNumSymbols(): getSize() / getEntrySize(), 0 for entry size 0
getNumEntries(sec) ==
  IF getEntrySize(sec) # 0 THEN getSize(sec) \div getEntrySize(sec) ELSE 0

(***************************************************************************)
(* DynamicSectionImpl<T, U>.                                               *)
(***************************************************************************)
DT_NULL == 0
DT_SYMBOLIC == 16
DT_TEXTREL == 22
DT_BIND_NOW == 24

\* DynamicSectionImpl<T, U>::fromSection(base)
DynamicFromSection(base, behind) ==
  [kind |-> "dynamic", sec |-> base, behind |-> behind]

\* getEntry(index) reads its record outside the buffer
DynamicReadsOutside(v, index) ==
  /\ index < getNumEntries(v.sec)
  /\ (index + 1) * getEntrySize(v.sec) <= getSize(v.sec)
  /\ ReadsOutside(v.sec.Data, index * getEntrySize(v.sec), 2 * ClassWidth(Is64Bit))

\* DynamicSectionImpl::getEntry(index)
DynamicGetEntry(v, index) ==
  IF index >= getNumEntries(v.sec) THEN Null
  ELSE IF (index + 1) * getEntrySize(v.sec) > getSize(v.sec) THEN Null
  ELSE LET W   == ClassWidth(Is64Bit)
           p   == index * getEntrySize(v.sec)
           tag == SignExt(Convert(Converter, IF Is64Bit THEN "s64" ELSE "s32",
                                  HostRead(v.sec.Data, p, W, v.behind)))
           un  == ZeroExt(ConvertField(Converter, HostRead(v.sec.Data, p + W, W, v.behind)))
       IN  Some([tag   |-> tag,
                 value |-> IF tag \in { Bytes(t, 8) :
                                         t \in {DT_NULL, DT_SYMBOLIC, DT_TEXTREL, DT_BIND_NOW} }
                           THEN Bytes(0, 8) ELSE un])

\* DynamicSectionImpl::getAllEntries(): entries it .. getNumEntries() - 1
RECURSIVE DynamicEntriesFrom(_, _)
DynamicEntriesFrom(v, it) ==
  IF it < getNumEntries(v.sec)
  THEN LET Entry == DynamicGetEntry(v, it) IN
         (IF Entry.kind = "entry" THEN <<Entry.val>> ELSE <<>>)
           \o DynamicEntriesFrom(v, it + 1)
  ELSE <<>>


(***************************************************************************)
(* SymbolSectionImpl<T, U>.                                                *)
(***************************************************************************)
\* where the members of U = Elf32_Sym / Elf64_Sym lie, and sizeof(U)
SymLayout(is64) ==
  IF is64
  THEN [st_name |-> 0, st_info |-> 4, st_other |-> 5, st_shndx |-> 6,
        st_value |-> 8, st_size |-> 16, sizeof |-> 24]
  ELSE [st_name |-> 0, st_value |-> 4, st_size |-> 8, st_info |-> 12,
        st_other |-> 13, st_shndx |-> 14, sizeof |-> 16]

\* SymbolSectionImpl<T, U>::fromSection(base, str)
SymbolFromSection(base, str, behind) ==
  [kind |-> "symbol", sec |-> base, StrSec |-> str, behind |-> behind]

\* the count of symbols with the last one left out
NumSymbolsButLast(sec) ==
  IF getEntrySize(sec) # 0 /\ getSize(sec) \div getEntrySize(sec) > 0
  THEN getSize(sec) \div getEntrySize(sec) - 1 ELSE 0

\* getNumSymbols()
getNumSymbols(sec) ==
  IF getEntrySize(sec) # 0 THEN getSize(sec) \div getEntrySize(sec) ELSE 0

\* (*C)(pSym->st_name) of the record at index
SymbolNameOffset(v, index) ==
  Val(ConvertField(Converter,
        HostRead(v.sec.Data, index * getEntrySize(v.sec) + SymLayout(Is64Bit).st_name,
                 4, v.behind)))

\* getSymbol(index) reads its record, or the name, outside a buffer
SymbolReadsOutside(v, index) ==
  /\ index < getNumSymbols(v.sec)
  /\ \/ ReadsOutside(v.sec.Data, index * getEntrySize(v.sec), SymLayout(Is64Bit).sizeof)
     \/ getStringReadsOutside(v.StrSec.sec, SymbolNameOffset(v, index))

\* SymbolSectionImpl::getSymbol(index)
getSymbol(v, index) ==
  IF index >= getNumSymbols(v.sec) THEN Null
  ELSE LET W    == ClassWidth(Is64Bit)
           L    == SymLayout(Is64Bit)
           p    == index * getEntrySize(v.sec)
           name == SymbolNameOffset(v, index)
           info == ByteAt(v.sec.Data, p + L.st_info, v.behind)
       IN  Some([name  |-> IF getStringReadsOutside(v.StrSec.sec, name)
                           THEN (IF v.behind = "letters" THEN <<97>> ELSE <<>>)
                           ELSE getString(v.StrSec.sec, name),
                 value |-> ZeroExt(ConvertField(Converter,
                                      HostRead(v.sec.Data, p + L.st_value, W, v.behind))),
                 size  |-> ZeroExt(ConvertField(Converter,
                                      HostRead(v.sec.Data, p + L.st_size, W, v.behind))),
                 bind  |-> info \div 16,
                 type  |-> info % 16,
                 sectionIndex |-> ConvertField(Converter,
                                      HostRead(v.sec.Data, p + L.st_shndx, 2, v.behind)),
                 other |-> ByteAt(v.sec.Data, p + L.st_other, v.behind)])

\* SymbolSectionImpl::getAllSymbols(): symbols it .. getNumSymbols() - 1
RECURSIVE SymbolsFrom(_, _)
SymbolsFrom(v, it) ==
  IF it < getNumSymbols(v.sec)
  THEN LET Entry == getSymbol(v, it) IN
         (IF Entry.kind = "entry" THEN <<Entry.val>> ELSE <<>>) \o SymbolsFrom(v, it + 1)
  ELSE <<>>

(***************************************************************************)
(* RelocationSectionImpl<T> and getSymbolAndType<U> (section.h).           *)
(***************************************************************************)
SHT_RELA == 4
SHT_REL == 9

\* getSymbolAndType<Elf32_Rel>, <Elf32_Rela>: ELF32_R_SYM, ELF32_R_TYPE of the
\* low 32 bits of info
getSym32(info) == <<info[2], info[3], info[4], 0>>
getType32(info) == <<info[1], 0, 0, 0>>

\* ELF64_R_SYM(info) taken as if it were ELF32_R_SYM of the low word
getSym64Low(info) == <<info[2], info[3], info[4], 0>>

\* getSymbolAndType<Elf64_Rel>, <Elf64_Rela>: ELF64_R_SYM, ELF64_R_TYPE
getSym64(info) == <<info[5], info[6], info[7], info[8]>>
getType64(info) == <<info[1], info[2], info[3], info[4]>>

\* RelocationSectionImpl<T>::fromSection(base, sym, is64Bit)
RelocationFromSection(base, sym, is64Bit, behind) ==
  [kind |-> "reloc", sec |-> base, Symbols |-> sym, is64Bit |-> is64Bit,
   behind |-> behind]

\* (*C)(pEntry->r_info) of the record at index, as Elf64_Xword
RelocationInfo(v, index) ==
  ZeroExt(ConvertField(Converter,
            HostRead(v.sec.Data, index * getEntrySize(v.sec) + ClassWidth(v.is64Bit),
                     ClassWidth(v.is64Bit), v.behind)))

\* getSymbolAndType<U>::getSym(Result->Info)
RelocationSymbolIndex(v, index) ==
  IF v.is64Bit THEN getSym64(RelocationInfo(v, index))
  ELSE getSym32(RelocationInfo(v, index))

\* Result->Addend of getEntryRel / getEntryRela
AddendOf(type, addend) == IF type = SHT_RELA THEN addend ELSE Bytes(0, 8)

\* getEntry(index) reads its record, or the symbol, outside a buffer
RelocationReadsOutside(v, index) ==
  /\ index < getNumEntries(v.sec)
  /\ getType(v.sec) \in {SHT_REL, SHT_RELA}
  /\ \/ ReadsOutside(v.sec.Data, index * getEntrySize(v.sec),
                     (IF getType(v.sec) = SHT_RELA THEN 3 ELSE 2) * ClassWidth(v.is64Bit))
     \/ SymbolReadsOutside(v.Symbols, Val(RelocationSymbolIndex(v, index)))

\* RelocationSectionImpl::getEntry(index) with getEntryRel / getEntryRela
RelocationGetEntry(v, index) ==
  IF index >= getNumEntries(v.sec) THEN Null
  ELSE IF getType(v.sec) \notin {SHT_REL, SHT_RELA} THEN Null
  ELSE LET W    == ClassWidth(v.is64Bit)
           p    == index * getEntrySize(v.sec)
           Info == RelocationInfo(v, index)
           SymbolIndex == RelocationSymbolIndex(v, index)
       IN  Some([Offset |-> ZeroExt(ConvertField(Converter,
                                       HostRead(v.sec.Data, p, W, v.behind))),
                 Info   |-> Info,
                 SymbolIndex |-> SymbolIndex,
                 Type   |-> IF v.is64Bit THEN getType64(Info) ELSE getType32(Info),
                 Addend |-> AddendOf(getType(v.sec),
                              SignExt(Convert(Converter, IF v.is64Bit THEN "s64" ELSE "s32",
                                              HostRead(v.sec.Data, p + 2 * W, W, v.behind)))),
                 SymbolInstance |-> getSymbol(v.Symbols, Val(SymbolIndex))])

\* RelocationSectionImpl::getAllEntries(): entries it .. getNumEntries() - 1
RECURSIVE RelocationEntriesFrom(_, _)
RelocationEntriesFrom(v, it) ==
  IF it < getNumEntries(v.sec)
  THEN LET Entry == RelocationGetEntry(v, it) IN
         (IF Entry.kind = "entry" THEN <<Entry.val>> ELSE <<>>)
           \o RelocationEntriesFrom(v, it + 1)
  ELSE <<>>

(***************************************************************************)
(* NoteSectionImpl<T>.                                                     *)
(***************************************************************************)
\* size_t align = sizeof(Elf64_Word)
NoteAlign == 4

\* ((x + align - 1) / align) * align
AlignUp(x) == ((x + NoteAlign - 1) \div NoteAlign) * NoteAlign

\* (*C)(*reinterpret_cast<const Elf64_Word*>(Data + p))
NoteWord(data, p, behind) == ConvertField(Converter, HostRead(data, p, 4, behind))

\* Data + 3 * align: where loadNotes takes name, description and type from
NoteBodyAt(Current) == 3 * NoteAlign

\* an advance that counts one word for the three words of a record
NoteAdvanceOneWord(namesz, descsz) == NoteAlign + AlignUp(namesz) + AlignUp(descsz)

\* Current += 3 * align + align_up(namesz) + align_up(descsz)
NoteAdvance(namesz, descsz) == 3 * NoteAlign + AlignUp(namesz) + AlignUp(descsz)

\* the loop of loadNotes from the cursor Current on
RECURSIVE NotesFrom(_, _, _, _)
NotesFrom(data, Size, Current, behind) ==
  IF Current + 3 * NoteAlign <= Size
  THEN LET namesz == Val(NoteWord(data, Current, behind))
           descsz == Val(NoteWord(data, Current + 4, behind))
           body   == NoteBodyAt(Current)
       IN  << [Name |-> IF namesz # 0
                        THEN [i \in 1..(namesz - 1) |-> ByteAt(data, body + i - 1, behind)]
                        ELSE <<>>,
               Description |-> [i \in 1..descsz |->
                                  ByteAt(data, body + AlignUp(namesz) + i - 1, behind)],
               Type |-> NoteWord(data, body - NoteAlign, behind)] >>
           \o NotesFrom(data, Size, Current + NoteAdvance(namesz, descsz), behind)
  ELSE <<>>

\* the values Current takes in the loop of loadNotes, the last one included
RECURSIVE NoteCursorsFrom(_, _, _, _)
NoteCursorsFrom(data, Size, Current, behind) ==
  IF Current + 3 * NoteAlign <= Size
  THEN <<Current>>
         \o NoteCursorsFrom(data, Size,
               Current + NoteAdvance(Val(NoteWord(data, Current, behind)),
                                     Val(NoteWord(data, Current + 4, behind))),
               behind)
  ELSE <<Current>>

\* some read of the loop from Current on leaves the buffer
RECURSIVE NotesReadOutside(_, _, _, _)
NotesReadOutside(data, Size, Current, behind) ==
  /\ Current + 3 * NoteAlign <= Size
  /\ LET namesz == Val(NoteWord(data, Current, behind))
         descsz == Val(NoteWord(data, Current + 4, behind))
         body   == NoteBodyAt(Current)
     IN  \/ ReadsOutside(data, Current, 2 * NoteAlign)
         \/ ReadsOutside(data, body - NoteAlign, NoteAlign)
         \/ namesz # 0 /\ ReadsOutside(data, body, namesz - 1)
         \/ ReadsOutside(data, body + AlignUp(namesz), descsz)
         \/ NotesReadOutside(data, Size, Current + NoteAdvance(namesz, descsz), behind)

\* NoteSectionImpl(const SectionImpl<T>&): the copy, then loadNotes()
NoteFromSection(base, behind) ==
  [kind |-> "note", sec |-> base, behind |-> behind,
   Notes |-> NotesFrom(base.Data, getSize(base), 0, behind),
   Cursors |-> NoteCursorsFrom(base.Data, getSize(base), 0, behind)]

\* NoteSectionImpl::getEntry(index)
NoteGetEntry(v, index) ==
  IF index >= Len(v.Notes) THEN Null ELSE Some(v.Notes[index + 1])

\* StringSectionImpl<T>::fromSection(base): a copy of the section
StringFromSection(base) == base

\* largest offset handed to getString
MaxOffset == 4

\* a section header entry of the file
Shdr(name, type, offset, size, link, entsize) ==
  [sh_name |-> name, sh_type |-> type, sh_flags |-> 0, sh_addr |-> 0,
   sh_offset |-> offset, sh_size |-> size, sh_link |-> link, sh_entsize |-> entsize]

\* a header entry for a section the input does not have
NoShdr == Shdr(0, SHT_NULL, 0, 0, 0, 0)

\* files with a section that is looked at as a string table: a table of two
\* strings, one without a final NUL, one of type SHT_NOBITS, an empty one, and
\* one that claims a byte more than the file holds
StringInputs ==
  { [as |-> "string", image |-> <<0, 97, 0>>, sec |-> Shdr(1, 3, 0, 3, 0, 0),
     str |-> NoShdr, sym |-> NoShdr],
    [as |-> "string", image |-> <<97, 98>>, sec |-> Shdr(0, 3, 0, 2, 0, 0), str |-> NoShdr, sym |-> NoShdr],
    [as |-> "string", image |-> <<0, 97, 0>>, sec |-> Shdr(1, SHT_NOBITS, 0, 3, 0, 0), str |-> NoShdr, sym |-> NoShdr],
    [as |-> "string", image |-> <<0, 97, 0>>, sec |-> Shdr(0, 3, 0, 0, 0, 0), str |-> NoShdr, sym |-> NoShdr],
    [as |-> "string", image |-> <<0, 97>>, sec |-> Shdr(1, 3, 0, 3, 0, 0), str |-> NoShdr, sym |-> NoShdr] }

\* largest index handed to getEntry / getSymbol
MaxIndex == 3

\* the bytes of the file that hold the value v (least significant byte first)
\* and the number r in n bytes, in the file's byte order
FileWord(v) == HostView(TRUE, IsLittleEndian, v)
FileNum(r, n) == FileWord(Bytes(r, n))

\* an Elf32_Dyn / Elf64_Dyn of the file
DynRec(tag, val) ==
  FileNum(tag, ClassWidth(Is64Bit)) \o FileNum(val, ClassWidth(Is64Bit))

\* files with a SHT_DYNAMIC (6) section: two entries; entry size 0; three
\* bytes more than two entries; entries of one byte
DynamicInputs ==
  LET W   == ClassWidth(Is64Bit)
      two == DynRec(1, 5) \o DynRec(DT_BIND_NOW, 9)
  IN  { [as |-> "dynamic", image |-> two, sec |-> Shdr(0, 6, 0, 4 * W, 0, 2 * W),
         str |-> NoShdr, sym |-> NoShdr],
        [as |-> "dynamic", image |-> two, sec |-> Shdr(0, 6, 0, 4 * W, 0, 0),
         str |-> NoShdr, sym |-> NoShdr],
        [as |-> "dynamic", image |-> two \o <<1, 2, 3>>,
         sec |-> Shdr(0, 6, 0, 4 * W + 3, 0, 2 * W), str |-> NoShdr, sym |-> NoShdr],
        [as |-> "dynamic", image |-> <<1, 0>>, sec |-> Shdr(0, 6, 0, 2, 0, 1),
         str |-> NoShdr, sym |-> NoShdr] }

\* an Elf32_Sym / Elf64_Sym of the file
SymRec(name, value, size, info, other, shndx) ==
  IF Is64Bit
  THEN FileNum(name, 4) \o <<info, other>> \o FileNum(shndx, 2)
         \o FileNum(value, 8) \o FileNum(size, 8)
  ELSE FileNum(name, 4) \o FileNum(value, 4) \o FileNum(size, 4)
         \o <<info, other>> \o FileNum(shndx, 2)

\* the string table "\0a\0" at offset 0 and two symbols behind it
StrImage == <<0, 97, 0>>
SymImage == SymRec(0, 0, 0, 0, 0, 0) \o SymRec(1, 4, 2, 18, 3, 1)
StrShdr == Shdr(1, 3, 0, 3, 0, 0)

\* files with a SHT_SYMTAB (2) section: two symbols; entry size 0; one byte
\* more than one symbol; names in a string table of type SHT_NOBITS
SymbolInputs ==
  LET S == SymLayout(Is64Bit).sizeof IN
    { [as |-> "symbol", image |-> StrImage \o SymImage,
       sec |-> Shdr(0, 2, 3, 2 * S, 0, S), str |-> StrShdr, sym |-> NoShdr],
      [as |-> "symbol", image |-> StrImage \o SymImage,
       sec |-> Shdr(0, 2, 3, 2 * S, 0, 0), str |-> StrShdr, sym |-> NoShdr],
      [as |-> "symbol", image |-> StrImage \o SymImage,
       sec |-> Shdr(0, 2, 3, S + 1, 0, S), str |-> StrShdr, sym |-> NoShdr],
      [as |-> "symbol", image |-> StrImage \o SymImage,
       sec |-> Shdr(0, 2, 3, 2 * S, 0, S),
       str |-> Shdr(1, SHT_NOBITS, 0, 3, 0, 0), sym |-> NoShdr] }

\* an Elf32_Rel / Elf64_Rel and an Elf32_Rela / Elf64_Rela of the file
RelRec(offset, info) == FileNum(offset, ClassWidth(Is64Bit)) \o FileWord(info)
RelaRec(offset, info, addend) ==
  RelRec(offset, info) \o FileNum(addend, ClassWidth(Is64Bit))

\* r_info for a symbol index, a type and a highest byte of the low word
InfoOf(sym, type, hi) ==
  IF Is64Bit THEN <<type, 0, 0, hi, sym, 0, 0, 0>> ELSE <<type, sym, 0, hi>>

\* files with a SHT_REL or SHT_RELA section behind the string table and the two
\* symbols: two entries (the second names symbol 5); entry size 0; one byte
\* more than one entry
RelocationInputs ==
  LET W    == ClassWidth(Is64Bit)
      S    == SymLayout(Is64Bit).sizeof
      base == StrImage \o SymImage
      off  == 3 + 2 * S
      symh == Shdr(0, 2, 3, 2 * S, 0, S)
  IN  { [as |-> "reloc", image |-> base \o RelRec(4, InfoOf(1, 7, 0)) \o RelRec(8, InfoOf(5, 255, 1)),
         sec |-> Shdr(0, SHT_REL, off, 4 * W, 1, 2 * W), str |-> StrShdr, sym |-> symh],
        [as |-> "reloc",
         image |-> base \o RelaRec(4, InfoOf(1, 7, 0), 3) \o RelaRec(8, InfoOf(5, 255, 1), -2),
         sec |-> Shdr(0, SHT_RELA, off, 6 * W, 1, 3 * W), str |-> StrShdr, sym |-> symh],
        [as |-> "reloc", image |-> base \o RelRec(4, InfoOf(1, 7, 0)),
         sec |-> Shdr(0, SHT_REL, off, 2 * W, 1, 0), str |-> StrShdr, sym |-> symh],
        [as |-> "reloc", image |-> base \o RelaRec(4, InfoOf(1, 7, 0), 3) \o <<9>>,
         sec |-> Shdr(0, SHT_RELA, off, 3 * W + 1, 1, 3 * W), str |-> StrShdr,
         sym |-> symh] }

\* a note record of the file: three words, the name and the description (padded)
NoteRec(namesz, descsz, type, name, desc) ==
  FileNum(namesz, 4) \o FileNum(descsz, 4) \o FileNum(type, 4) \o name \o desc

\* files with a SHT_NOTE (7) section: two notes "a" and "b"; one note without
\* name and description; no bytes; one note with a name of five bytes; one
\* record whose namesz names nine bytes behind the end of the section
NoteInputs ==
  { [as |-> "note", image |-> NoteRec(9, 0, 1, <<>>, <<>>),
     sec |-> Shdr(0, 7, 0, 12, 0, 0), str |-> NoShdr, sym |-> NoShdr],
    [as |-> "note",
     image |-> NoteRec(2, 1, 1, <<97, 0, 0, 0>>, <<7, 0, 0, 0>>)
                 \o NoteRec(2, 0, 2, <<98, 0, 0, 0>>, <<>>),
     sec |-> Shdr(0, 7, 0, 36, 0, 0), str |-> NoShdr, sym |-> NoShdr],
    [as |-> "note", image |-> NoteRec(0, 0, 3, <<>>, <<>>),
     sec |-> Shdr(0, 7, 0, 12, 0, 0), str |-> NoShdr, sym |-> NoShdr],
    [as |-> "note", image |-> <<>>,
     sec |-> Shdr(0, 7, 0, 0, 0, 0), str |-> NoShdr, sym |-> NoShdr],
    [as |-> "note",
     image |-> NoteRec(5, 2, 1, <<97, 98, 99, 100, 0, 0, 0, 0>>, <<7, 8, 0, 0>>),
     sec |-> Shdr(0, 7, 0, 24, 0, 0), str |-> NoShdr, sym |-> NoShdr] }

ViewInputs ==
  StringInputs \cup DynamicInputs \cup SymbolInputs \cup RelocationInputs \cup NoteInputs

\* an image has been opened: class, encodings and converter are set, and the
\* sections to look at have not been loaded yet
InitSec ==
  /\ ConvIdle
  /\ CopyIdle
  /\ pc = "idle"
  /\ hostLittle \in BOOLEAN
  /\ Is64Bit \in BOOLEAN
  /\ IsLittleEndian \in BOOLEAN
  /\ Converter = ConverterCtor1(hostLittle, IsLittleEndian)
  /\ \E inp \in ViewInputs :
       /\ file = [exists |-> TRUE, ident |-> <<>>, data |-> inp.image]
       /\ view = [kind |-> "input", as |-> inp.as, sec |-> inp.sec,
                  str |-> inp.str, sym |-> inp.sym]
  /\ Input = [open |-> TRUE, good |-> TRUE]
  /\ err = "none" /\ e_ident = <<>>
  /\ FileHeader = NoHeader /\ Segments = <<>> /\ Sections = <<>>
  /\ StrSection = <<>> /\ iter = 0
  /\ qpc = "base" /\ qIndex = 0 /\ qResult = <<>>

\* the section loadSection makes of a header entry when the allocation ends as alloc
Loaded(shdr, alloc) ==
  loadSection([hdr |-> RawShdr(Is64Bit, shdr), good |-> TRUE], alloc, 0).sec

\* Sec->loadSection(stream, offset) on the header entries of the input; the
\* linked sections get their buffers
SecLoad ==
  /\ qpc = "base"
  /\ LET h   == [Header |-> RawShdr(Is64Bit, view.sec)]
         str == [Header |-> RawShdr(Is64Bit, view.str)]
         sym == [Header |-> RawShdr(Is64Bit, view.sym)]
     IN  \E alloc \in AllocOutcomes(SectionWantsData(getType(h)), getSize(h)) :
           view' = [kind |-> "section", as |-> view.as,
                    sec |-> Loaded(view.sec, alloc),
                    str |-> Loaded(view.str, IF SectionWantsData(getType(str))
                                             THEN "ok" ELSE "none"),
                    sym |-> Loaded(view.sym, IF SectionWantsData(getType(sym))
                                             THEN "ok" ELSE "none")]
  /\ qpc' = "loaded"
  /\ UNCHANGED <<qIndex, qResult, convVars, openVars, copyVars>>

\* the string section view is made
UpcastString ==
  /\ qpc = "loaded" /\ view.as = "string"
  /\ view' = [kind |-> "string", sec |-> StringFromSection(view.sec)]
  /\ qpc' = "view"
  /\ UNCHANGED <<qIndex, qResult, convVars, openVars, copyVars>>

\* the dynamic section view is made
UpcastDynamic ==
  /\ qpc = "loaded" /\ view.as = "dynamic"
  /\ \E behind \in Behind : view' = DynamicFromSection(view.sec, behind)
  /\ qpc' = "view"
  /\ UNCHANGED <<qIndex, qResult, convVars, openVars, copyVars>>

\* the symbol section view is made, with the view of its string table
UpcastSymbol ==
  /\ qpc = "loaded" /\ view.as = "symbol"
  /\ \E behind \in Behind :
       view' = SymbolFromSection(view.sec,
                 [kind |-> "string", sec |-> StringFromSection(view.str)], behind)
  /\ qpc' = "view"
  /\ UNCHANGED <<qIndex, qResult, convVars, openVars, copyVars>>

\* the relocation section view is made, with the view of its symbol section
UpcastRelocation ==
  /\ qpc = "loaded" /\ view.as = "reloc"
  /\ \E behind \in Behind :
       view' = RelocationFromSection(view.sec,
                 SymbolFromSection(view.sym,
                   [kind |-> "string", sec |-> StringFromSection(view.str)], behind),
                 Is64Bit, behind)
  /\ qpc' = "view"
  /\ UNCHANGED <<qIndex, qResult, convVars, openVars, copyVars>>

\* the note section view is made: its constructor runs loadNotes, and a read
\* of loadNotes outside the buffer is undefined
UpcastNote ==
  /\ qpc = "loaded" /\ view.as = "note"
  /\ \E behind \in Behind :
       /\ view' = NoteFromSection(view.sec, behind)
       /\ IF behind = "fault" /\ NotesReadOutside(view.sec.Data, getSize(view.sec), 0, behind)
          THEN qpc' = "crashed" /\ qResult' = Crashed
          ELSE qpc' = "view" /\ UNCHANGED qResult
  /\ UNCHANGED <<qIndex, convVars, openVars, copyVars>>

\* the views with an indexed getter
EntryViews == {"dynamic", "symbol", "reloc", "note"}

\* the indexed getter of a view, and whether it reads outside a buffer
EntryOf(v, index) ==
  CASE v.kind = "dynamic" -> DynamicGetEntry(v, index)
    [] v.kind = "symbol"  -> getSymbol(v, index)
    [] v.kind = "reloc"   -> RelocationGetEntry(v, index)
    [] v.kind = "note"    -> NoteGetEntry(v, index)

EntryReadsOutside(v, index) ==
  CASE v.kind = "dynamic" -> DynamicReadsOutside(v, index)
    [] v.kind = "symbol"  -> SymbolReadsOutside(v, index)
    [] v.kind = "reloc"   -> RelocationReadsOutside(v, index)
    [] v.kind = "note"    -> FALSE

\* getAllEntries() / getAllSymbols() of a view, and getNumEntries() / getNumSymbols()
AllOf(v) ==
  CASE v.kind = "dynamic" -> DynamicEntriesFrom(v, 0)
    [] v.kind = "symbol"  -> SymbolsFrom(v, 0)
    [] v.kind = "reloc"   -> RelocationEntriesFrom(v, 0)
    [] v.kind = "note"    -> v.Notes

NumOf(v) ==
  CASE v.kind = "dynamic" -> getNumEntries(v.sec)
    [] v.kind = "symbol"  -> getNumSymbols(v.sec)
    [] v.kind = "reloc"   -> getNumEntries(v.sec)
    [] v.kind = "note"    -> Len(v.Notes)

\* view->getString(index); a read behind the buffer's NUL is undefined: the
\* process dies or the string holds what lies there
AskString ==
  /\ qpc = "view" /\ view.kind = "string"
  /\ \E index \in 0..MaxOffset :
       /\ qIndex' = index
       /\ IF getStringReadsOutside(view.sec, index)
          THEN \/ qResult' = [kind |-> "SIGSEGV", val |-> <<>>]
               \/ \E g \in GarbageStrings : qResult' = [kind |-> "string", val |-> g]
          ELSE qResult' = [kind |-> "string", val |-> getString(view.sec, index)]
  /\ qpc' = "answered"
  /\ UNCHANGED <<view, convVars, openVars, copyVars>>

\* view->getEntry(index) / view->getSymbol(index)
AskEntry ==
  /\ qpc = "view" /\ view.kind \in EntryViews
  /\ \E index \in 0..MaxIndex :
       /\ qIndex' = index
       /\ qResult' = IF view.behind = "fault" /\ EntryReadsOutside(view, index)
                     THEN Crashed
                     ELSE EntryOf(view, index)
  /\ qpc' = "answered"
  /\ UNCHANGED <<view, convVars, openVars, copyVars>>

\* view->getAllEntries() / view->getAllSymbols()
AskAll ==
  /\ qpc = "view" /\ view.kind \in EntryViews
  /\ qResult' = IF /\ view.behind = "fault"
                   /\ \E i \in 0..(NumOf(view) - 1) : EntryReadsOutside(view, i)
                THEN Crashed
                ELSE [kind |-> "all", val |-> AllOf(view)]
  /\ qpc' = "all"
  /\ UNCHANGED <<qIndex, view, convVars, openVars, copyVars>>

NextSec ==
  \/ SecLoad
  \/ UpcastString
  \/ UpcastDynamic
  \/ UpcastSymbol
  \/ UpcastRelocation
  \/ UpcastNote
  \/ AskString
  \/ AskEntry
  \/ AskAll

SpecSec == InitSec /\ [][NextSec]_vars

(***************************************************************************)
(* C12: for every string section and every offset, getString(offset) is    *)
(* the bytes from the offset up to the next NUL byte of the section's data *)
(* when offset < size, and the empty string, without an error, when        *)
(* offset >= size.                                                         *)
(***************************************************************************)
C12_GetString ==
  (qpc = "answered" /\ view.kind = "string") =>
    /\ qResult.kind = "string"
    /\ qResult.val = IF ULt(qIndex, getSize(view.sec))
                     THEN UpToNul(view.sec.Data, qIndex + 1)
                     ELSE <<>>

(***************************************************************************)
(* C13: the indexed getter of a dynamic, symbol, relocation or note        *)
(* section returns null, and does not fail, for every index i >= count,    *)
(* where count is floor(size / entry_size) (0 when entry_size is 0) and,   *)
(* for a note section, the number of parsed notes.                         *)
(***************************************************************************)
\* floor(size / entry_size), 0 when entry_size = 0
FloorCount(sec) ==
  IF getEntrySize(sec) = 0 THEN 0 ELSE getSize(sec) \div getEntrySize(sec)

\* the count of the entries of a view
CountOf(v) == IF v.kind = "note" THEN Len(v.Notes) ELSE FloorCount(v.sec)

C13_NullPastCount ==
  (qpc = "answered" /\ view.kind \in EntryViews /\ qIndex >= CountOf(view)) =>
    qResult = Null

\* a relocation section with entries was asked for the entry behind its last
C13_Witness ==
  /\ qpc = "answered" /\ view.kind = "reloc"
  /\ CountOf(view) > 0 /\ qIndex = CountOf(view)
  /\ qResult = Null

(***************************************************************************)
(* C14: for every dynamic, relocation and note section, getAllEntries()    *)
(* returns exactly getNumEntries() entries, and its i-th element equals    *)
(* getEntry(i) for every i < getNumEntries(): no entry is skipped.         *)
(***************************************************************************)
C14_AllEntries ==
  (qpc = "all" /\ view.kind \in {"dynamic", "reloc", "note"}) =>
    /\ qResult.kind = "all"
    /\ Len(qResult.val) = NumOf(view)
    /\ \A i \in 0..(NumOf(view) - 1) :
         /\ EntryOf(view, i).kind = "entry"
         /\ qResult.val[i + 1] = EntryOf(view, i).val

(***************************************************************************)
(* C15: for every relocation entry with converted info field I: in a       *)
(* 32-bit image symbol_index = I >> 8 and type = I & 0xFF; in a 64-bit     *)
(* image symbol_index = I >> 32 and type = I & 0xFFFFFFFF; the addend is 0 *)
(* in a SHT_REL section and the entry's converted r_addend field in a      *)
(* SHT_RELA section.                                                       *)
(***************************************************************************)
\* the value of the n bytes at getData() + p taken in the file's byte order,
\* least significant byte first
FieldAt(v, p, n) ==
  [i \in 1..n |-> ByteAt(v.sec.Data, IF IsLittleEndian THEN p + i - 1 ELSE p + n - i,
                         v.behind)]

\* I >> 8k and I & (2^(8k) - 1) of a 64-bit value
ShiftRight(I, k) == [i \in 1..8 |-> IF i + k <= 8 THEN I[i + k] ELSE 0]
LowBytes(I, k) == [i \in 1..8 |-> IF i <= k THEN I[i] ELSE 0]

C15_SymbolTypeAddend ==
  (qpc = "answered" /\ view.kind = "reloc" /\ qResult.kind = "entry") =>
    LET W == ClassWidth(Is64Bit)
        p == qIndex * getEntrySize(view.sec)
        I == ZeroExt(FieldAt(view, p + W, W))
        e == qResult.val
    IN  /\ e.Info = I
        /\ ZeroExt(e.SymbolIndex) = ShiftRight(I, IF Is64Bit THEN 4 ELSE 1)
        /\ ZeroExt(e.Type) = LowBytes(I, IF Is64Bit THEN 4 ELSE 1)
        /\ getType(view.sec) = SHT_REL => e.Addend = Bytes(0, 8)
        /\ getType(view.sec) = SHT_RELA =>
             e.Addend = SignExt(FieldAt(view, p + 2 * W, W))

\* an entry with a negative addend of a 64-bit SHT_RELA section was returned on a host
\* of the other byte order
C15_Witness ==
  /\ qpc = "answered" /\ view.kind = "reloc" /\ qResult.kind = "entry"
  /\ Is64Bit /\ hostLittle # IsLittleEndian
  /\ getType(view.sec) = SHT_RELA
  /\ qResult.val.SymbolIndex = <<5, 0, 0, 0>>
  /\ qResult.val.Type = <<255, 0, 0, 1>>
  /\ qResult.val.Addend = Bytes(-2, 8)

(***************************************************************************)
(* C16: for every relocation entry returned by getEntry(i) with i < count, *)
(* the resolved symbol is what getSymbol(symbol_index) gives on the linked *)
(* symbol section, and it is null exactly when symbol_index >= the symbol  *)
(* count of that section; getEntry itself returns a non-null entry then.   *)
(***************************************************************************)
\* the symbol that the record at index of a symbol section describes, where
\* the name lies inside the string table
SymbolRecordAt(sv, index, sym) ==
  LET W == ClassWidth(Is64Bit)
      L == SymLayout(Is64Bit)
      p == index * getEntrySize(sv.sec)
      n == Val(FieldAt(sv, p + L.st_name, 4))
  IN  /\ sym.value = ZeroExt(FieldAt(sv, p + L.st_value, W))
      /\ sym.size = ZeroExt(FieldAt(sv, p + L.st_size, W))
      /\ sym.bind * 16 + sym.type = FieldAt(sv, p + L.st_info, 1)[1]
      /\ sym.type < 16
      /\ sym.other = FieldAt(sv, p + L.st_other, 1)[1]
      /\ sym.sectionIndex = FieldAt(sv, p + L.st_shndx, 2)
      /\ n < Len(sv.StrSec.sec.Data) => sym.name = UpToNul(sv.StrSec.sec.Data, n + 1)

C16_ResolvedSymbol ==
  (qpc = "answered" /\ view.kind = "reloc" /\ qIndex < CountOf(view)) =>
    /\ qResult.kind \in {"entry", "SIGSEGV"}
    /\ qResult.kind = "entry" =>
         LET inst  == qResult.val.SymbolInstance
             index == Val(qResult.val.SymbolIndex)
         IN  /\ inst.kind = "null" <=> index >= FloorCount(view.Symbols.sec)
             /\ inst.kind # "null" =>
                  /\ inst.kind = "entry"
                  /\ SymbolRecordAt(view.Symbols, index, inst.val)

\* an entry that names symbol 5 of a symbol section with two symbols was
\* returned, without a symbol
C16_Witness ==
  /\ qpc = "answered" /\ view.kind = "reloc" /\ qResult.kind = "entry"
  /\ FloorCount(view.Symbols.sec) = 2
  /\ Val(qResult.val.SymbolIndex) = 5
  /\ qResult.val.SymbolInstance.kind = "null"

(***************************************************************************)
(* C17: in a note section (align = 4) the k-th parsed note, whose record   *)
(* starts at cursor c_k (c_0 = 0, c_{k+1} = c_k + 3*align +                *)
(* align_up(namesz_k) + align_up(descsz_k)), has namesz, descsz and type   *)
(* equal to the three converted words at c_k, c_k + 4, c_k + 8, its name   *)
(* is the namesz_k - 1 bytes from c_k + 3*align (empty for namesz_k = 0)   *)
(* and its description the descsz_k bytes from c_k + 3*align +             *)
(* align_up(namesz_k).                                                     *)
(***************************************************************************)
\* the notes whose records start at the cursors c, c', ... of a note section
RECURSIVE NotesAtCursors(_, _)
NotesAtCursors(v, c) ==
  IF c + 3 * NoteAlign <= getSize(v.sec)
  THEN LET namesz == Val(FieldAt(v, c, 4))
           descsz == Val(FieldAt(v, c + 4, 4))
       IN  << [Name |-> [i \in 1..(IF namesz = 0 THEN 0 ELSE namesz - 1) |->
                           ByteAt(v.sec.Data, c + 3 * NoteAlign + i - 1, v.behind)],
               Description |-> [i \in 1..descsz |->
                                  ByteAt(v.sec.Data,
                                         c + 3 * NoteAlign + AlignUp(namesz) + i - 1,
                                         v.behind)],
               Type |-> FieldAt(v, c + 8, 4)] >>
           \o NotesAtCursors(v, c + 3 * NoteAlign + AlignUp(namesz) + AlignUp(descsz))
  ELSE <<>>

C17_NotesAtCursors ==
  (qpc = "view" /\ view.kind = "note") =>
    \A k \in 1..Len(view.Notes) :
      /\ k <= Len(NotesAtCursors(view, 0))
      /\ view.Notes[k] = NotesAtCursors(view, 0)[k]

(***************************************************************************)
(* C18: for every symbol section with entry_size # 0, getNumSymbols() x    *)
(* entry_size = size; and for every relocation section, getNumEntries() x  *)
(* entry_size = size.                                                      *)
(***************************************************************************)
C18_ProductIsSize ==
  (qpc = "view" /\ view.kind \in {"symbol", "reloc"}) =>
    /\ (view.kind = "symbol" /\ getEntrySize(view.sec) # 0) =>
         getNumSymbols(view.sec) * getEntrySize(view.sec) = getSize(view.sec)
    /\ view.kind = "reloc" =>
         getNumEntries(view.sec) * getEntrySize(view.sec) = getSize(view.sec)

(***************************************************************************)
(* C18, amended: for every symbol section and every relocation section     *)
(* with entry_size # 0, the count times entry_size is at most size and     *)
(* less than entry_size below it (it is size exactly when size is a        *)
(* multiple of entry_size); with entry_size = 0 the count is 0.            *)
(***************************************************************************)
C18_CountIsFloor ==
  (qpc = "view" /\ view.kind \in {"symbol", "reloc"}) =>
    LET n == NumOf(view)
        e == getEntrySize(view.sec)
        z == getSize(view.sec)
    IN  /\ e # 0 => (n * e <= z /\ z - n * e < e)
        /\ e # 0 => (n * e = z <=> z % e = 0)
        /\ e = 0 => n = 0

\* a symbol or relocation section whose size is one byte more than one entry:
\* one entry is counted
C18_Witness ==
  /\ qpc = "view" /\ view.kind \in {"symbol", "reloc"}
  /\ getEntrySize(view.sec) # 0
  /\ getSize(view.sec) = getEntrySize(view.sec) + 1
  /\ NumOf(view) = 1

(***************************************************************************)
(* C19: if a required read during open (the file header, a program header, *)
(* a section header, the data bytes of a segment or section) returns fewer *)
(* bytes than requested because the file is too short, open fails with the *)
(* Truncated error and returns no image.                                   *)
(***************************************************************************)
C19_ShortReadFails ==
  /\ (Input.open /\ ~Input.good) => (pc = "failed" /\ err = "Truncated")
  /\ pc = "done" => Input.good

(***************************************************************************)
(* C20: if allocating the data buffer of a segment or section fails during *)
(* open, open does not fail: the image still contains every segment and    *)
(* section, and the affected entity has an empty data buffer and reports   *)
(* size 0.                                                                 *)
(***************************************************************************)
C20_AllocationFailure ==
  /\ \A i \in 1..Len(Segments) :
       Segments[i].Alloc = "bad_alloc" =>
         /\ pc # "failed"
         /\ Segments[i].Data = <<>>
         /\ getFileSize(Segments[i]) = 0
  /\ \A j \in 1..Len(Sections) :
       Sections[j].Alloc = "bad_alloc" =>
         /\ pc # "failed"
         /\ Sections[j].Data = <<>>
         /\ getSize(Sections[j]) = 0
  /\ (/\ pc = "done"
      /\ \/ \E i \in 1..Len(Segments) : Segments[i].Alloc = "bad_alloc"
         \/ \E j \in 1..Len(Sections) : Sections[j].Alloc = "bad_alloc") =>
       /\ Len(Segments) = getProgramHeaderNumber
       /\ Len(Sections) = getSectionHeaderNumber

(***************************************************************************)
(* C21: within open the phases run in the order identity probe, file       *)
(* header, section loading, name resolution, segment loading,              *)
(* segment/section mapping: the mapping pass for a segment starts only     *)
(* after the section list and the segment list are fully constructed.      *)
(***************************************************************************)
C21_PhaseOrder ==
  /\ [](pc \in {"sections", "names"} => Segments = <<>>)
  /\ [](pc = "segments" => Len(Sections) = getSectionHeaderNumber)
  /\ [][(pc = "segments" /\ Len(Segments') > Len(Segments)) =>
          /\ Len(Sections) = getSectionHeaderNumber
          /\ Len(Segments') = getProgramHeaderNumber]_vars

(***************************************************************************)
(* C22: on every path out of open (success, file not found, bad magic, bad *)
(* class, bad encoding) the file handle acquired at the start of open is   *)
(* closed by the time open returns or raises; no handle stays open.        *)
(***************************************************************************)
C22_HandleClosed ==
  pc \in {"done", "failed"} => ~Input.open

\* open raised for a wrong class after it had opened the file and read e_ident
C22_Witness ==
  /\ pc = "failed" /\ err = "Invalid ELF file class!"
  /\ file.exists /\ Len(e_ident) = EI_NIDENT
  /\ ~Input.open

(***************************************************************************)
(* C23: during open, name resolution accesses the section at index         *)
(* e_shstrndx only if e_shstrndx < number of loaded sections; for a header *)
(* with e_shstrndx # SHN_UNDEF and e_shstrndx >= e_shnum (also the header  *)
(* of a file so short that e_shstrndx keeps its pre-filled value while     *)
(* e_shnum is 0) no element outside the section list is accessed.          *)
(***************************************************************************)
C23_NoAccessOutsideSections ==
  [][(pc = "names" /\ getSectionHeaderStringTableIndex # SHN_UNDEF) =>
        ~IndexOutsideSections(getSectionHeaderStringTableIndex)]_vars

(***************************************************************************)
(* C24: getString(offset) never reads a byte outside the section's data    *)
(* buffer, for every offset and every state of the section, also a string  *)
(* section whose buffer is empty while its header size is greater than 0   *)
(* (type SHT_NOBITS or SHT_NULL, or a failed allocation).                  *)
(***************************************************************************)
C24_GetStringInsideBuffer ==
  (qpc = "answered" /\ view.kind = "string") =>
    ~getStringReadsOutside(view.sec, qIndex)

(***************************************************************************)
(* C25: for every content of a note section, the note walker reads only    *)
(* bytes of the section's data: for every namesz and descsz decoded from   *)
(* the data, the name and description ranges it copies lie entirely inside *)
(* the data buffer.                                                        *)
(***************************************************************************)
C25_NotesInsideBuffer ==
  view.kind = "note" =>
    ~NotesReadOutside(view.sec.Data, getSize(view.sec), 0, view.behind)

(***************************************************************************)
(* C26: for every content of a note section (every size and every namesz   *)
(* and descsz) the note walker terminates: the cursor increases by at      *)
(* least 3*align on every iteration and the loop ends after at most        *)
(* floor(size / (3*align)) iterations.                                     *)
(***************************************************************************)
C26_NoteWalkerTerminates ==
  view.kind = "note" =>
    /\ view.Cursors[1] = 0
    /\ \A k \in 1..(Len(view.Cursors) - 1) :
         view.Cursors[k + 1] >= view.Cursors[k] + 3 * NoteAlign
    /\ Len(view.Cursors) - 1 = Len(view.Notes)
    /\ Len(view.Cursors) - 1 <= getSize(view.sec) \div (3 * NoteAlign)

\* the walker went twice through its loop on a section of 36 bytes
C26_Witness ==
  /\ view.kind = "note" /\ qpc = "view"
  /\ getSize(view.sec) = 36
  /\ view.Cursors = <<0, 20, 36>>
  /\ Len(view.Notes) = 2

(***************************************************************************)
(* C27: the containment test never lists a section on the strength of a    *)
(* sum that passed 2^64 - 1: in every image, a section or segment whose    *)
(* start plus size exceeds 2^64 - 1 never puts a section that is not       *)
(* contained on the exact sums in a segment's list of associated sections. *)
(***************************************************************************)
\* a + size on the exact sums exceeds 2^64 - 1
SumExceeds(a, size) ==
  \/ Carry(a) + Carry(size) = 2
  \/ Carry(a) + Carry(size) = 1 /\ a + size >= 0

\* one of the two sums the test forms for this pair exceeds 2^64 - 1
RangeExceeds(seg, sec) ==
  IF (getFlags(sec) \div SHF_ALLOC) % 2 = 1
  THEN \/ SumExceeds(getAddress(sec), getSize(sec))
       \/ SumExceeds(getVirtualAddress(seg), getMemorySize(seg))
  ELSE \/ SumExceeds(getOffset(sec), getSize(sec))
       \/ SumExceeds(SegmentGetOffset(seg), getFileSize(seg))

C28_StringSectionAgrees ==
  (/\ pc = "done"
   /\ getSectionHeaderStringTableIndex # SHN_UNDEF
   /\ ~IndexOutsideSections(getSectionHeaderStringTableIndex)) =>
    /\ Len(StrSection) = 1
    /\ LET generic == Sections[getSectionHeaderStringTableIndex + 1]
           primary == StrSection[1]
       IN  /\ getIndex(primary) = getIndex(generic)
           /\ getName(primary) = getName(generic)
           /\ primary.Data = generic.Data
           /\ primary.Header = generic.Header

(***************************************************************************)
(* C29: a copy of an image made with the copy constructor exposes the same *)
(* filename, class, encoding, header, segments and sections as the image   *)
(* it was made from.                                                       *)
(***************************************************************************)
C29_CopyAgrees ==
  copied # <<>> =>
    /\ copied[1].Filename = This.Filename
    /\ copied[1].Is64Bit = This.Is64Bit
    /\ copied[1].IsLittleEndian = This.IsLittleEndian
    /\ copied[1].FileHeader = This.FileHeader
    /\ copied[1].Segments = This.Segments
    /\ copied[1].Sections = This.Sections

(***************************************************************************)
(* C30: for every typed record getter (dynamic getEntry, getSymbol,        *)
(* relocation getEntry) and every index below the count, the bytes of the  *)
(* record that the getter reads lie inside the section's data buffer, for  *)
(* every entry size of the header and every length of the buffer.          *)
(***************************************************************************)
\* sizeof of the record the getter of this view reads
RecordBytes(v) ==
  CASE v.kind = "dynamic" -> 2 * ClassWidth(Is64Bit)
    [] v.kind = "symbol"  -> SymLayout(Is64Bit).sizeof
    [] v.kind = "reloc"   ->
         (IF getType(v.sec) = SHT_RELA THEN 3 ELSE 2) * ClassWidth(v.is64Bit)

\* the getter goes on to read the record with this index
RecordIsRead(v, index) ==
  /\ index < NumOf(v)
  /\ v.kind = "dynamic" => (index + 1) * getEntrySize(v.sec) <= getSize(v.sec)
  /\ v.kind = "reloc" => getType(v.sec) \in {SHT_REL, SHT_RELA}

C30_RecordsInsideBuffer ==
  (/\ qpc = "answered"
   /\ view.kind \in {"dynamic", "symbol", "reloc"}
   /\ RecordIsRead(view, qIndex)) =>
    ~ReadsOutside(view.sec.Data, qIndex * getEntrySize(view.sec), RecordBytes(view))

====
